---- MODULE Spec2Model ----
(***************************************************************************)
(* A model of the watclub scraping package: the four scrapers that         *)
(* subclass BaseScraper (wusa, design, sports, faculty), the snapshot file *)
(* BaseScraper.save_data writes, and SupabaseSync, which loads snapshot    *)
(* files and upserts them into the remote "clubs" table.                   *)
(*                                                                         *)
(* Spec          one BaseScraper.run of one scraper, item tasks            *)
(*               interleaved as asyncio interleaves them (one step per     *)
(*               await), up to the exit of the entry point.                *)
(* SpecSync      SupabaseSync.sync_all calls over snapshot files.          *)
(* SpecSyncType  SupabaseSync.sync_type calls, statement by statement.     *)
(* SpecSlug      generate_slug.                                            *)
(* SpecStore     the snapshot file under BaseScraper.save_data and         *)
(*               tags.process_type.                                        *)
(* SpecImage     the image download functions.                             *)
(* SpecSports    SportsScraper.scrape and scrape_single_sport, await by    *)
(*               await, with the browser pages; a call may never return.   *)
(* SpecFence     the parsing of a response of the text-generation service. *)
(* SpecTags      tags.main over the snapshot files of several types.       *)
(***************************************************************************)
EXTENDS Integers, Sequences, FiniteSets, TLC

VARIABLES
    scraper,        \* BaseScraper.name of the scraper that runs
    pc,             \* position of run()/scrape()
    page,           \* WUSAScraper.scrape: the page counter
    listed,         \* how many items the listings of this run have returned
    httpStatus,     \* status class of the last listing response
    items,          \* the items of the current fan-out
    tasks,          \* the item tasks of the current fan-out
    organizations,  \* what the last fan-out returned
    imgIdx,         \* WUSA image loop: index into organizations
    allOrgs,        \* all_organizations of scrape()
    runStatus,      \* "running", "ok" (run returned data), "failed" (except branch)
    returned,       \* the list run() returned
    snapshot,       \* data/<name>/<name>_data.json of the scraper
    remote,         \* sync: rows of the remote clubs table
    syncTypes,      \* sync: the types of the running sync_all call
    syncDone,       \* sync: how many sync_type tasks have run
    syncResults,    \* sync: per task that has run, whether it returned (else it raised)
    syncExit,       \* sync: how the last sync_all call ended
    lastBatch,      \* sync: the batch and type of the last upsert call that succeeded
    exitStatus,     \* exit status of the scraper entry point, -1 while it runs
    stPc,           \* sync_type: position of the call
    stType,         \* sync_type: type_name
    stFile,         \* sync_type: the data list as the snapshot file holds it
    stClubs,        \* sync_type: clubs, the list the call works on
    stCalls,        \* sync_type: the batches of the upsert calls issued by the call
    slugName,       \* generate_slug: the argument
    slugs,          \* generate_slug: the results of the calls made with slugName
    imgScraper,     \* image download: the scraper whose image directory is observed
    imgFiles,       \* image download: the files of that directory
    imgLast,        \* image download: what the last download call did
    saveArgs,       \* store: the arguments of the last save_data call
    tagPc,          \* tags.process_type: position of the call
    tagClubs,       \* tags.process_type: clubs
    browser,        \* sports: the browser scrape launched
    pages,          \* sports: per item task, the page scrape_single_sport opened
    fenceResp,      \* response parsing: the content of the response
    fenceOut,       \* response parsing: what each parser made of it
    tgFiles,        \* tags.main: the snapshot file of every type
    tgTypes,        \* tags.main: the types of the call
    tgTasks,        \* tags.main: the process_type tasks of the call
    tgMain          \* tags.main: how far the call is

vars == <<scraper, pc, page, listed, httpStatus, items, tasks, organizations, imgIdx,
          allOrgs, runStatus, returned, snapshot,
          remote, syncTypes, syncDone, syncResults, syncExit, lastBatch,
          exitStatus, stPc, stType, stFile, stClubs, stCalls,
          slugName, slugs, imgScraper, imgFiles, imgLast, saveArgs, tagPc, tagClubs,
          browser, pages, fenceResp, fenceOut, tgFiles, tgTypes, tgTasks, tgMain>>

runVars == <<scraper, pc, page, listed, httpStatus, items, tasks, organizations, imgIdx,
             allOrgs, runStatus, returned, snapshot>>

syncVars == <<remote, syncTypes, syncDone, syncResults, syncExit, lastBatch>>

stVars == <<stPc, stType, stFile, stClubs, stCalls>>

slugVars == <<slugName, slugs>>

imgVars == <<imgScraper, imgFiles, imgLast>>

tagVars == <<saveArgs, tagPc, tagClubs>>

pageVars == <<browser, pages>>

fenceVars == <<fenceResp, fenceOut>>

tgVars == <<tgFiles, tgTypes, tgTasks, tgMain>>

moreVars == <<pageVars, fenceVars, tgVars>>

toolVars == <<stVars, slugVars, imgVars, tagVars, moreVars>>

(***************************************************************************)
(* Bounds of the model.                                                    *)
(***************************************************************************)
\* the number of items the source lists in one run, over all its pages
MaxItems == 3
\* the number of records in the data list of a snapshot file that is synced
MaxClubs == 2
\* the number of types one sync_all call is given
MaxTypes == 2

(***************************************************************************)
(* Program constants.                                                      *)
(***************************************************************************)
DescLimit == 500

Scrapers == {"wusa", "design", "sports", "faculty"}

\* models/organization.py: the values of OrgType
OrgType == {"wusa", "faculty", "design_team", "athletics", "advocacy",
            "entrepreneurship", "media"}

\* FacultyScraper.base_urls, in dict order
Faculties == <<"mathsoc", "scisoc", "engsoc">>

Min(a, b) == IF a <= b THEN a ELSE b

(***************************************************************************)
(* Texts are kept by origin and length: a text of origin "raw" and length  *)
(* n is the first n characters of the item's page text, "llm" is text the  *)
(* text-generation service wrote, "empty" is "", "null" is None.           *)
(***************************************************************************)
RawText(n) == [src |-> "raw", len |-> n]
LlmText == [src |-> "llm", len |-> 7]
EmptyText == [src |-> "empty", len |-> 0]
NullText == [src |-> "null", len |-> 0]

\* s[:k]
Truncate(s, k) == [s EXCEPT !.len = Min(s.len, k)]

(***************************************************************************)
(* The source: its k-th raw item has a name, a URL and a page text.  Two   *)
(* items may carry the same name, and the name element of an item may hold *)
(* no text (the second item's does).  A listing that follows `done` items  *)
(* already listed returns the next n items, for any n the bound allows.    *)
(***************************************************************************)
ItemAt(k) ==
    [name |-> IF k = 2 THEN "" ELSE IF k % 2 = 1 THEN "a" ELSE "b",
     url |-> k,
     len |-> IF k % 2 = 1 THEN 3 ELSE 600]

Listings(done) ==
    { [i \in 1..n |-> ItemAt(done + i)] : n \in 0..(MaxItems - done) }

RECURSIVE SeqsUpTo(_, _)
SeqsUpTo(S, n) ==
    IF n = 0 THEN { <<>> }
    ELSE LET shorter == SeqsUpTo(S, n - 1)
         IN  shorter \cup { Append(s, x) : s \in { t \in shorter : Len(t) = n - 1 }, x \in S }

(***************************************************************************)
(* What the text-generation service can answer.  kind:                     *)
(*   "transport"  the call raised                                          *)
(*   "empty"      the content is "" or whitespace                          *)
(*   "garbage"    the content does not parse as JSON                       *)
(*   "null"       JSON null          "nonobj"   a JSON array or scalar     *)
(*   "emptyobj"   {}                 "obj"      an object with the fields  *)
(* smok says whether social_media has the shape Dict[str, list[str]].  A   *)
(* social_media mapping is a set of pairs <<platform, list of URLs>>; the  *)
(* service may repeat a URL in a list and may give a platform an empty     *)
(* list.                                                                   *)
(***************************************************************************)
SmPool ==
    { {},
      { <<"instagram", <<"i1">> >> },
      { <<"instagram", <<"i1", "i1">> >>, <<"facebook", <<>> >> } }

Answer(k, d, sm, ok) == [kind |-> k, desc |-> d, sm |-> sm, smok |-> ok]

LlmAnswers ==
    { Answer(k, NullText, {}, TRUE) :
        k \in {"transport", "empty", "garbage", "null", "nonobj", "emptyobj"} }
    \cup { Answer("obj", LlmText, sm, TRUE) : sm \in SmPool }
    \cup { Answer("obj", LlmText, {}, FALSE) }

FailedKinds == {"transport", "empty", "garbage"}

\* dict.get(key, default) on the parsed answer
GetDesc(v, default) == IF v.kind = "obj" THEN v.desc ELSE default
GetSm(v) == IF v.kind = "obj" THEN v.sm ELSE {}

\* Python truthiness of the parsed answer
Truthy(v) == v.kind \in {"obj", "nonobj"}

\* whether v has a .get method
IsDict(v) == v.kind \in {"obj", "emptyobj"}

(***************************************************************************)
(* Organization: pydantic validates the fields on construction.            *)
(***************************************************************************)
ValidOrganization(org_type, smok) == org_type \in OrgType /\ smok

Organization(name, org_type, desc, sm, url, last) ==
    [name |-> name, org_type |-> org_type, description |-> desc,
     social_media |-> sm, source_url |-> url, last_active |-> last]

\* Organization.to_dict: dict(exclude_none=True)
ToDict(org) ==
    [k \in (IF org.description = NullText
            THEN DOMAIN org \ {"description"}
            ELSE DOMAIN org) |-> org[k]]

(***************************************************************************)
(* The enrichment functions.  Each returns [raised, val]: whether the call *)
(* raised, and the value it returned otherwise.                            *)
(***************************************************************************)
FallbackVal(desc) == Answer("obj", desc, {}, TRUE)
Returned(v) == [raised |-> FALSE, val |-> v]
Raised == [raised |-> TRUE, val |-> Answer("null", NullText, {}, TRUE)]

\* DesignScraper.process_with_llm
DesignProcessWithLlm(len, a) ==
    IF a.kind \in FailedKinds
    THEN Returned(FallbackVal(Truncate(RawText(len), DescLimit)))
    ELSE Returned(a)

\* WUSAScraper.process_with_llm
WusaProcessWithLlm(len, a) ==
    IF a.kind \in FailedKinds
    THEN Returned(FallbackVal(RawText(len)))
    ELSE Returned(a)

\* SportsScraper.process_with_llm up to json.loads: no try block
SportsParse(a) ==
    IF a.kind \in FailedKinds THEN Raised ELSE Returned(a)

(***************************************************************************)
(* The faculty scraper asks for one JSON array of clubs per faculty page.  *)
(* kind "list" is such an array, "nonlist" a JSON object or scalar.        *)
(***************************************************************************)
ClubPool ==
    { [name |-> "a", desc |-> LlmText, sm |-> {}, smok |-> TRUE],
      [name |-> "b", desc |-> LlmText, sm |-> {}, smok |-> FALSE] }

FacultyAnswers ==
    { [kind |-> k, clubs |-> <<>>] : k \in FailedKinds \cup {"null", "nonlist"} }
    \cup { [kind |-> "list", clubs |-> cs] : cs \in SeqsUpTo(ClubPool, MaxItems) }

\* FacultyScraper.parse_content_with_reasoning_llm: [] on any failure
FacultyParse(a) ==
    IF a.kind \in FailedKinds \cup {"null"}
    THEN [kind |-> "list", clubs |-> <<>>]
    ELSE a

(***************************************************************************)
(* Item tasks.  st: "pending", "fetched", "enriched", "resolved".          *)
(* kind, once resolved: "rec" (an Organization), "none" (None), "exc" (an  *)
(* exception, kept by gather), "list" (faculty: a list of Organizations).  *)
(***************************************************************************)
NoEnr == [raised |-> FALSE, val |-> Answer("", NullText, {}, TRUE)]

NewTask ==
    [st |-> "pending", kind |-> "", recs |-> <<>>, calls |-> 0,
     fetch |-> "", llm |-> "", enr |-> NoEnr, log |-> <<>>]

\* The log entries written for an item, at level warning and above: the
\* level, the function that wrote the entry, and what of the item the
\* message holds: "url", "name_url", "index" (its position in the results),
\* "payload" (the answer of the text-generation service) or "none".
LogError(by, id) == [level |-> "error", by |-> by, id |-> id]
LogWarning(by, id) == [level |-> "warning", by |-> by, id |-> id]

\* process_with_llm of WUSAScraper and DesignScraper: what the function
\* logs for an answer of the service
LlmLog(a) ==
    IF a.kind = "transport" THEN << LogError("process_with_llm", "none") >>
    ELSE IF a.kind = "empty"
         THEN << LogWarning("process_with_llm", "none"),
                 LogError("process_with_llm", "none") >>
    ELSE IF a.kind = "garbage" THEN << LogError("process_with_llm", "payload") >>
    ELSE <<>>

\* the loop over the results of a gather that logs the exceptions among them
LogExceptions(ts, by, id) ==
    [i \in 1..Len(ts) |->
        IF ts[i].kind = "exc"
        THEN [ts[i] EXCEPT !.log = Append(@, LogError(by, id))]
        ELSE ts[i]]

Resolve(t, k, rs) == [t EXCEPT !.st = "resolved", !.kind = k, !.recs = rs]

\* a gather that returns as soon as one task has resolved
AnyResolved == \E i \in 1..Len(tasks) : tasks[i].st = "resolved"

\* await asyncio.gather(*tasks, return_exceptions=True) returns
AllResolved == \A i \in 1..Len(tasks) : tasks[i].st = "resolved"

\* a collection that stops at the first result that is no Organization
RECURSIVE CollectUntilFailure(_)
CollectUntilFailure(ts) ==
    IF ts = <<>> \/ Head(ts).kind # "rec" THEN <<>>
    ELSE Head(ts).recs \o CollectUntilFailure(Tail(ts))

\* a collection that keeps the first Organization of every name
RECURSIVE CollectUnique(_, _)
CollectUnique(ts, seen) ==
    IF ts = <<>> THEN <<>>
    ELSE IF Head(ts).kind = "rec" /\ Head(ts).recs[1].name \notin seen
         THEN Head(ts).recs \o CollectUnique(Tail(ts), seen \cup {Head(ts).recs[1].name})
         ELSE CollectUnique(Tail(ts), seen)

CollectUniqueNames(ts) == CollectUnique(ts, {})

\* a collection in the reverse of the order of the tasks
RECURSIVE CollectReversed(_)
CollectReversed(ts) ==
    IF ts = <<>> THEN <<>>
    ELSE IF Head(ts).kind = "rec"
         THEN CollectReversed(Tail(ts)) \o Head(ts).recs
         ELSE CollectReversed(Tail(ts))

\* [org for org in results if isinstance(org, Organization)]
RECURSIVE Collect(_)
Collect(ts) ==
    IF ts = <<>> THEN <<>>
    ELSE IF Head(ts).kind = "rec"
         THEN Head(ts).recs \o Collect(Tail(ts))
         ELSE Collect(Tail(ts))

\* FacultyScraper.scrape: all_organizations.extend(result) for each list
RECURSIVE ExtendAll(_)
ExtendAll(ts) ==
    IF ts = <<>> THEN <<>>
    ELSE IF Head(ts).kind = "list"
         THEN Head(ts).recs \o ExtendAll(Tail(ts))
         ELSE ExtendAll(Tail(ts))

\* SportsScraper.scrape: "Remove duplicates based on URL"
RECURSIVE UniqueClubs(_, _)
UniqueClubs(club_info, seen_urls) ==
    IF club_info = <<>> THEN <<>>
    ELSE IF Head(club_info).url \in seen_urls
         THEN UniqueClubs(Tail(club_info), seen_urls)
         ELSE <<Head(club_info)>>
              \o UniqueClubs(Tail(club_info), seen_urls \cup {Head(club_info).url})

(***************************************************************************)
(* The snapshot file.                                                      *)
(***************************************************************************)
NoFile == [exists |-> FALSE, scraper |-> "", count |-> 0, data |-> <<>>, gen |-> "none"]

\* a file an earlier run of the same scraper left
OldFile(name) ==
    [exists |-> TRUE, scraper |-> name, count |-> 1,
     data |-> << ToDict(Organization("old", "athletics", LlmText, {}, 0, "Unknown")) >>,
     gen |-> "old"]

\* a save_data that appends to the data list the file already holds
AppendedFile(name, data) ==
    [exists |-> TRUE, scraper |-> name, count |-> Len(data),
     data |-> snapshot.data \o [i \in 1..Len(data) |-> ToDict(data[i])], gen |-> "new"]

\* BaseScraper.save_data
SavedFile(name, data) ==
    [exists |-> TRUE, scraper |-> name, count |-> Len(data),
     data |-> [i \in 1..Len(data) |-> ToDict(data[i])], gen |-> "new"]

\* no upsert call has succeeded yet
NoBatch == [type |-> "", clubs |-> <<>>]

SyncIdle ==
    /\ remote = {}
    /\ syncTypes = <<>>
    /\ syncDone = 0
    /\ syncResults = <<>>
    /\ syncExit = "idle"
    /\ lastBatch = NoBatch

\* no sync_type call has been made
StIdle ==
    /\ stPc = "idle"
    /\ stType = ""
    /\ stFile = <<>>
    /\ stClubs = <<>>
    /\ stCalls = <<>>

\* generate_slug has not been called
SlugIdle == slugName = <<>> /\ slugs = <<>>

\* no image download has been made
NoDownload ==
    [name |-> <<>>, outcome |-> "", existed |-> FALSE, fetched |-> FALSE,
     changed |-> FALSE, path |-> <<>>]

ImgIdle == imgScraper = "" /\ imgFiles = {} /\ imgLast = NoDownload

\* save_data has not been called
NoSave == [by |-> "", name |-> "", records |-> <<>>]

TagIdle == saveArgs = NoSave /\ tagPc = "idle" /\ tagClubs = <<>>

\* no browser has been launched
PageIdle == browser = "none" /\ pages = <<>>

\* no response has been parsed
FenceIdle == fenceResp = <<>> /\ fenceOut = <<>>

\* tags.main has not been called
TgIdle == tgFiles = <<>> /\ tgTypes = <<>> /\ tgTasks = <<>> /\ tgMain = "idle"

MoreIdle == PageIdle /\ FenceIdle /\ TgIdle

ToolIdle == StIdle /\ SlugIdle /\ ImgIdle /\ TagIdle /\ MoreIdle

Init ==
    /\ scraper \in Scrapers
    /\ pc = "list"
    /\ page = 1
    /\ listed = 0
    /\ httpStatus = "none"
    /\ items = <<>>
    /\ tasks = <<>>
    /\ organizations = <<>>
    /\ imgIdx = 0
    /\ allOrgs = <<>>
    /\ runStatus = "running"
    /\ returned = <<>>
    /\ snapshot \in {NoFile, OldFile(scraper)}
    /\ SyncIdle
    /\ exitStatus = -1
    /\ ToolIdle

(***************************************************************************)
(* BaseScraper.run, the except branch: scrape() or save_data() raised.     *)
(***************************************************************************)
RunFailed ==
    /\ pc' = "done"
    /\ runStatus' = "failed"
    /\ returned' = <<>>
    /\ UNCHANGED <<scraper, page, listed, items, tasks, organizations, imgIdx, allOrgs, snapshot>>

StartFanOut(its) ==
    /\ items' = its
    /\ tasks' = [i \in 1..Len(its) |-> NewTask]
    /\ listed' = listed + Len(its)
    /\ organizations' = <<>>
    /\ pc' = "gather"

(***************************************************************************)
(* WUSAScraper                                                             *)
(***************************************************************************)
\* scrape: one turn of the while loop up to the gather
WusaGetClubLinks ==
    /\ scraper = "wusa" /\ pc = "list"
    /\ \E st \in {"raise", "ok", "non2xx"} :
         /\ httpStatus' = st
         /\ IF st = "raise"
            THEN RunFailed
            ELSE \E links \in IF st = "ok" THEN Listings(listed) ELSE { <<>> } :
                   IF links = <<>>
                   THEN /\ pc' = "save"
                        /\ UNCHANGED <<scraper, page, listed, items, tasks, organizations, imgIdx,
                                       allOrgs, runStatus, returned, snapshot>>
                   ELSE /\ StartFanOut(links)
                        /\ UNCHANGED <<scraper, page, imgIdx, allOrgs, runStatus,
                                       returned, snapshot>>
    /\ UNCHANGED <<syncVars, exitStatus, toolVars>>

\* scrape_single_club up to the call of process_with_llm
WusaFetchClub(i) ==
    /\ scraper = "wusa" /\ pc = "gather"
    /\ tasks[i].st = "pending"
    /\ \E f \in {"raise", "nocontainer", "noname", "ok"} :
         tasks' = [tasks EXCEPT ![i] =
                     IF f = "ok"
                     THEN [@ EXCEPT !.st = "fetched", !.fetch = f]
                     ELSE Resolve([@ EXCEPT !.fetch = f,
                                            !.log = Append(@,
                                                IF f = "raise"
                                                THEN LogError("scrape_single_club", "url")
                                                ELSE LogWarning("scrape_single_club", "url"))],
                                  "none", <<>>)]
    /\ UNCHANGED <<scraper, pc, page, listed, httpStatus, items, organizations, imgIdx,
                   allOrgs, runStatus, returned, snapshot>>
    /\ UNCHANGED <<syncVars, exitStatus, toolVars>>

\* scrape_single_club from process_with_llm's return: the Organization, or
\* None when building it raised
WusaBuild(item, enr) ==
    IF IsDict(enr.val) /\ ValidOrganization("wusa", enr.val.smok)
    THEN [kind |-> "rec",
          recs |-> << Organization(item.name, "wusa", GetDesc(enr.val, EmptyText),
                                   GetSm(enr.val), item.url, "Unknown") >>]
    ELSE [kind |-> "none", recs |-> <<>>]

\* an enrichment step that asks again after a failed answer
WusaEnrichRetry(i) ==
    /\ scraper = "wusa" /\ pc = "gather"
    /\ tasks[i].st = "fetched"
    /\ \E a \in LlmAnswers :
         LET enr == WusaProcessWithLlm(items[i].len, a)
             b == WusaBuild(items[i], enr)
             t == [tasks[i] EXCEPT !.calls = @ + 1, !.llm = a.kind, !.enr = enr]
         IN  tasks' = [tasks EXCEPT ![i] =
                         IF a.kind \in FailedKinds /\ tasks[i].calls < 2
                         THEN t
                         ELSE Resolve(t, b.kind, b.recs)]
    /\ UNCHANGED <<scraper, pc, page, listed, httpStatus, items, organizations, imgIdx,
                   allOrgs, runStatus, returned, snapshot>>
    /\ UNCHANGED <<syncVars, exitStatus, toolVars>>

WusaEnrich(i) ==
    /\ scraper = "wusa" /\ pc = "gather"
    /\ tasks[i].st = "fetched"
    /\ \E a \in LlmAnswers :
         LET enr == WusaProcessWithLlm(items[i].len, a)
             b == WusaBuild(items[i], enr)
             \* the except branch of scrape_single_club
             caught == IF b.kind = "none"
                       THEN << LogError("scrape_single_club", "url") >>
                       ELSE <<>>
         IN  tasks' = [tasks EXCEPT ![i] =
                         Resolve([@ EXCEPT !.calls = @ + 1, !.llm = a.kind, !.enr = enr,
                                           !.log = @ \o LlmLog(a) \o caught],
                                 b.kind, b.recs)]
    /\ UNCHANGED <<scraper, pc, page, listed, httpStatus, items, organizations, imgIdx,
                   allOrgs, runStatus, returned, snapshot>>
    /\ UNCHANGED <<syncVars, exitStatus, toolVars>>

\* the next organization at or after k that has social media, else Len + 1
RECURSIVE NextImg(_, _)
NextImg(orgs, k) ==
    IF k > Len(orgs) THEN Len(orgs) + 1
    ELSE IF orgs[k].social_media # {} THEN k
    ELSE NextImg(orgs, k + 1)

\* process_clubs_concurrent: gather returned
WusaGatherDone ==
    /\ scraper = "wusa" /\ pc = "gather"
    /\ AllResolved
    /\ organizations' = Collect(tasks)
    /\ imgIdx' = NextImg(organizations', 1)
    /\ pc' = "images"
    /\ UNCHANGED <<scraper, page, listed, httpStatus, items, tasks, allOrgs, runStatus,
                   returned, snapshot>>
    /\ UNCHANGED <<syncVars, exitStatus, toolVars>>

\* process_clubs_concurrent: scrape_club_image and the sleep for one club
WusaImageStep ==
    /\ scraper = "wusa" /\ pc = "images"
    /\ imgIdx <= Len(organizations)
    /\ imgIdx' = NextImg(organizations, imgIdx + 1)
    /\ UNCHANGED <<scraper, pc, page, listed, httpStatus, items, tasks, organizations,
                   allOrgs, runStatus, returned, snapshot>>
    /\ UNCHANGED <<syncVars, exitStatus, toolVars>>

\* an extend that keeps only the organizations of the last page
ExtendReplaces(all_organizations, page_orgs) == page_orgs

\* all_organizations.extend(page_orgs)
Extend(all_organizations, page_orgs) == all_organizations \o page_orgs

\* scrape: all_organizations.extend(page_orgs); page += 1
WusaPageDone ==
    /\ scraper = "wusa" /\ pc = "images"
    /\ imgIdx > Len(organizations)
    /\ allOrgs' = Extend(allOrgs, organizations)
    /\ page' = page + 1
    /\ pc' = "list"
    /\ items' = <<>>
    /\ tasks' = <<>>
    /\ organizations' = <<>>
    /\ imgIdx' = 0
    /\ UNCHANGED <<scraper, listed, httpStatus, runStatus, returned, snapshot>>
    /\ UNCHANGED <<syncVars, exitStatus, toolVars>>

(***************************************************************************)
(* DesignScraper                                                           *)
(***************************************************************************)
\* the summary headings of a page that has m of them: the team names
TeamSummary(m) == [i \in 1..m |-> ItemAt(i).name]

\* zip(team_sections, team_summary): as many pairs as the shorter list has,
\* each a section with the name of the summary at its position
Zip(team_sections, team_summary) ==
    [i \in 1..Min(Len(team_sections), Len(team_summary)) |->
        [name |-> team_summary[i], url |-> team_sections[i].url,
         len |-> team_sections[i].len]]

\* scrape up to the gather: get_team_sections returns the content sections
\* and the summary headings of the page, whose numbers may differ; listed
\* counts the sections; one task is created per pair of the zip
DesignGetTeamSections ==
    /\ scraper = "design" /\ pc = "list"
    /\ \E st \in {"raise", "ok", "non2xx"} :
         /\ httpStatus' = st
         /\ IF st = "raise"
            THEN RunFailed
            ELSE \E sections \in IF st = "ok" THEN Listings(0) ELSE { <<>> } :
                   IF sections = <<>>
                   THEN /\ pc' = "save"
                        /\ allOrgs' = <<>>
                        /\ UNCHANGED <<scraper, page, listed, items, tasks, organizations, imgIdx,
                                       runStatus, returned, snapshot>>
                   ELSE \E m \in 0..MaxItems :
                          LET pairs == Zip(sections, TeamSummary(m))
                          IN  /\ items' = pairs
                              /\ tasks' = [i \in 1..Len(pairs) |-> NewTask]
                              /\ listed' = Len(sections)
                              /\ organizations' = <<>>
                              /\ pc' = "gather"
                              /\ UNCHANGED <<scraper, page, imgIdx, allOrgs, runStatus,
                                             returned, snapshot>>
    /\ UNCHANGED <<syncVars, exitStatus, toolVars>>

\* scrape_single_team up to download_team_image: process_with_llm, the
\* "if not llm_result" skip, and the two .get calls
DesignEnrich(i) ==
    /\ scraper = "design" /\ pc = "gather"
    /\ tasks[i].st = "pending"
    /\ \E a \in LlmAnswers :
         LET enr == DesignProcessWithLlm(items[i].len, a)
             t == [tasks[i] EXCEPT !.calls = @ + 1, !.llm = a.kind, !.enr = enr,
                                   !.fetch = "ok", !.log = @ \o LlmLog(a)]
             \* "LLM failed to process section, skipping", or the except
             \* branch of scrape_single_team when .get raised
             left == IF ~Truthy(enr.val)
                     THEN LogWarning("scrape_single_team", "none")
                     ELSE LogError("scrape_single_team", "none")
         IN  tasks' = [tasks EXCEPT ![i] =
                         IF Truthy(enr.val) /\ IsDict(enr.val)
                         THEN [t EXCEPT !.st = "enriched"]
                         ELSE Resolve([t EXCEPT !.log = Append(@, left)], "none", <<>>)]
    /\ UNCHANGED <<scraper, pc, page, listed, httpStatus, items, organizations, imgIdx,
                   allOrgs, runStatus, returned, snapshot>>
    /\ UNCHANGED <<syncVars, exitStatus, toolVars>>

\* scrape_single_team from download_team_image's return
DesignBuild(item, enr) ==
    IF ValidOrganization("design_team", enr.val.smok)
    THEN [kind |-> "rec",
          recs |-> << Organization(item.name, "design_team", GetDesc(enr.val, EmptyText),
                                   GetSm(enr.val), 0, "Current") >>]
    ELSE [kind |-> "none", recs |-> <<>>]

DesignImage(i) ==
    /\ scraper = "design" /\ pc = "gather"
    /\ tasks[i].st = "enriched"
    /\ LET b == DesignBuild(items[i], tasks[i].enr)
           \* the except branch of scrape_single_team
           caught == IF b.kind = "none"
                     THEN << LogError("scrape_single_team", "none") >>
                     ELSE <<>>
       IN  tasks' = [tasks EXCEPT ![i] =
                       Resolve([@ EXCEPT !.log = @ \o caught], b.kind, b.recs)]
    /\ UNCHANGED <<scraper, pc, page, listed, httpStatus, items, organizations, imgIdx,
                   allOrgs, runStatus, returned, snapshot>>
    /\ UNCHANGED <<syncVars, exitStatus, toolVars>>

\* process_teams_concurrent: gather returned, the exceptions among the
\* results are logged; scrape extends and returns
DesignGatherDone ==
    /\ scraper = "design" /\ pc = "gather"
    /\ AllResolved
    /\ organizations' = Collect(tasks)
    /\ tasks' = LogExceptions(tasks, "process_teams_concurrent", "index")
    /\ allOrgs' = allOrgs \o organizations'
    /\ pc' = "save"
    /\ UNCHANGED <<scraper, page, listed, httpStatus, items, imgIdx, runStatus,
                   returned, snapshot>>
    /\ UNCHANGED <<syncVars, exitStatus, toolVars>>

(***************************************************************************)
(* SportsScraper                                                           *)
(***************************************************************************)
\* scrape up to the gather: the listing page, club_info, unique_clubs
SportsListClubs ==
    /\ scraper = "sports" /\ pc = "list"
    /\ \E st \in {"raise", "ok", "non2xx"} :
         /\ httpStatus' = st
         /\ IF st = "ok"
            THEN \E club_info \in Listings(0) :
                   /\ StartFanOut(UniqueClubs(club_info, {}))
                   /\ UNCHANGED <<scraper, page, imgIdx, allOrgs, runStatus,
                                  returned, snapshot>>
            ELSE \* page.goto raised, or wait_for_selector timed out on an error page
                 RunFailed
    /\ UNCHANGED <<syncVars, exitStatus, toolVars>>

\* scrape_single_sport up to the call of process_with_llm
SportsGoto(i) ==
    /\ scraper = "sports" /\ pc = "gather"
    /\ tasks[i].st = "pending"
    /\ \E f \in {"raise", "nocontent", "ok"} :
         tasks' = [tasks EXCEPT ![i] =
                     IF f = "ok"
                     THEN [@ EXCEPT !.st = "fetched", !.fetch = f]
                     ELSE Resolve([@ EXCEPT !.fetch = f], "exc", <<>>)]
    /\ UNCHANGED <<scraper, pc, page, listed, httpStatus, items, organizations, imgIdx,
                   allOrgs, runStatus, returned, snapshot>>
    /\ UNCHANGED <<syncVars, exitStatus, toolVars>>

\* process_with_llm from the parsed answer on: the Organization, or the
\* exception raised by .get or by pydantic
SportsBuild(item, enr) ==
    IF ~enr.raised /\ IsDict(enr.val) /\ ValidOrganization("sports", enr.val.smok)
    THEN [kind |-> "rec",
          recs |-> << Organization(item.name, "sports", GetDesc(enr.val, NullText),
                                   GetSm(enr.val), item.url, "Fall 2025") >>]
    ELSE [kind |-> "exc", recs |-> <<>>]

SportsEnrich(i) ==
    /\ scraper = "sports" /\ pc = "gather"
    /\ tasks[i].st = "fetched"
    /\ \E a \in LlmAnswers :
         LET enr == SportsParse(a)
             b == SportsBuild(items[i], enr)
         IN  tasks' = [tasks EXCEPT ![i] =
                         Resolve([@ EXCEPT !.calls = @ + 1, !.llm = a.kind, !.enr = enr],
                                 b.kind, b.recs)]
    /\ UNCHANGED <<scraper, pc, page, listed, httpStatus, items, organizations, imgIdx,
                   allOrgs, runStatus, returned, snapshot>>
    /\ UNCHANGED <<syncVars, exitStatus, toolVars>>

\* process_clubs_concurrent: gather returned, the exceptions among the
\* results are logged; scrape extends
SportsGatherDone ==
    /\ scraper = "sports" /\ pc = "gather"
    /\ AllResolved
    /\ organizations' = Collect(tasks)
    /\ tasks' = LogExceptions(tasks, "process_clubs_concurrent", "name_url")
    /\ allOrgs' = allOrgs \o organizations'
    /\ pc' = "close"
    /\ UNCHANGED <<scraper, page, listed, httpStatus, items, imgIdx, runStatus,
                   returned, snapshot>>
    /\ UNCHANGED <<syncVars, exitStatus, toolVars>>

\* scrape: await browser.close(), then return
SportsBrowserClose ==
    /\ scraper = "sports" /\ pc = "close"
    /\ pc' = "save"
    /\ UNCHANGED <<scraper, page, listed, httpStatus, items, tasks, organizations, imgIdx,
                   allOrgs, runStatus, returned, snapshot>>
    /\ UNCHANGED <<syncVars, exitStatus, toolVars>>

(***************************************************************************)
(* FacultyScraper                                                          *)
(***************************************************************************)
FacultyItem(f) == [name |-> f, url |-> 0, len |-> 600]

\* scrape up to the gather: one scrape_faculty task per entry of base_urls
FacultyStart ==
    /\ scraper = "faculty" /\ pc = "list"
    /\ StartFanOut([i \in 1..Len(Faculties) |-> FacultyItem(Faculties[i])])
    /\ UNCHANGED <<scraper, page, httpStatus, imgIdx, allOrgs, runStatus,
                   returned, snapshot>>
    /\ UNCHANGED <<syncVars, exitStatus, toolVars>>

\* scrape_faculty for a faculty that is not implemented: returns []
FacultySkip(i) ==
    /\ scraper = "faculty" /\ pc = "gather"
    /\ tasks[i].st = "pending"
    /\ items[i].name \notin {"mathsoc", "engsoc"}
    /\ tasks' = [tasks EXCEPT ![i] = Resolve(@, "list", <<>>)]
    /\ UNCHANGED <<scraper, pc, page, listed, httpStatus, items, organizations, imgIdx,
                   allOrgs, runStatus, returned, snapshot>>
    /\ UNCHANGED <<syncVars, exitStatus, toolVars>>

\* scrape_with_llm_parsing up to the call of the reasoning model: the
\* listing page of the faculty
FacultyFetch(i) ==
    /\ scraper = "faculty" /\ pc = "gather"
    /\ tasks[i].st = "pending"
    /\ items[i].name \in {"mathsoc", "engsoc"}
    /\ \E st \in {"raise", "ok", "non2xx"} :
         /\ httpStatus' = st
         /\ tasks' = [tasks EXCEPT ![i] =
                        IF st = "ok"
                        THEN [@ EXCEPT !.st = "fetched", !.fetch = st]
                        ELSE Resolve([@ EXCEPT !.fetch = st], "list", <<>>)]
    /\ UNCHANGED <<scraper, pc, page, listed, items, organizations, imgIdx,
                   allOrgs, runStatus, returned, snapshot>>
    /\ UNCHANGED <<syncVars, exitStatus, toolVars>>

\* scrape_with_llm_parsing, "Process each club": one Organization per club
\* whose construction does not raise
RECURSIVE FacultyBuild(_, _)
FacultyBuild(item, clubs) ==
    IF clubs = <<>> THEN <<>>
    ELSE LET c == Head(clubs)
         IN  (IF ValidOrganization("faculty", c.smok)
              THEN << Organization(c.name, "faculty", c.desc, c.sm, item.url, "Current") >>
              ELSE <<>>)
             \o FacultyBuild(item, Tail(clubs))

FacultyEnrich(i) ==
    /\ scraper = "faculty" /\ pc = "gather"
    /\ tasks[i].st = "fetched"
    /\ \E a \in FacultyAnswers :
         LET clubs_data == FacultyParse(a)
             enr == Returned(Answer(clubs_data.kind, NullText, {}, TRUE))
             orgs == IF clubs_data.kind = "list"
                     THEN FacultyBuild(items[i], clubs_data.clubs)
                     ELSE <<>>
         IN  tasks' = [tasks EXCEPT ![i] =
                         Resolve([@ EXCEPT !.calls = @ + 1, !.llm = a.kind, !.enr = enr],
                                 "list", orgs)]
    /\ UNCHANGED <<scraper, pc, page, listed, httpStatus, items, organizations, imgIdx,
                   allOrgs, runStatus, returned, snapshot>>
    /\ UNCHANGED <<syncVars, exitStatus, toolVars>>

\* scrape: gather returned; the loop over the results
FacultyGatherDone ==
    /\ scraper = "faculty" /\ pc = "gather"
    /\ AllResolved
    /\ organizations' = ExtendAll(tasks)
    /\ allOrgs' = allOrgs \o organizations'
    /\ pc' = "save"
    /\ UNCHANGED <<scraper, page, listed, httpStatus, items, tasks, imgIdx, runStatus,
                   returned, snapshot>>
    /\ UNCHANGED <<syncVars, exitStatus, toolVars>>

(***************************************************************************)
(* BaseScraper.run after scrape() returned: save_data, then return data.   *)
(* open() can fail, and then the except branch returns [].                 *)
(***************************************************************************)
SaveData ==
    /\ pc = "save"
    /\ \E w \in {"ok", "raise"} :
         IF w = "ok"
         THEN /\ snapshot' = SavedFile(scraper, allOrgs)
              /\ runStatus' = "ok"
              /\ returned' = allOrgs
              /\ pc' = "done"
              /\ UNCHANGED <<scraper, page, listed, items, tasks, organizations, imgIdx, allOrgs>>
         ELSE RunFailed
    /\ UNCHANGED httpStatus
    /\ UNCHANGED <<syncVars, exitStatus, toolVars>>

(***************************************************************************)
(* The entry point of a scraper module: asyncio.run(main()).  main awaits  *)
(* scraper.run(), which returns a list in every case, logs, and returns:   *)
(* the process exits with status 0.                                        *)
(***************************************************************************)
MainReturn ==
    /\ pc = "done"
    /\ pc' = "exited"
    /\ exitStatus' = 0
    /\ UNCHANGED <<scraper, page, listed, httpStatus, items, tasks, organizations, imgIdx,
                   allOrgs, runStatus, returned, snapshot>>
    /\ UNCHANGED <<syncVars, toolVars>>

Next ==
    \/ WusaGetClubLinks
    \/ \E i \in 1..Len(tasks) : WusaFetchClub(i)
    \/ \E i \in 1..Len(tasks) : WusaEnrich(i)
    \/ WusaGatherDone
    \/ WusaImageStep
    \/ WusaPageDone
    \/ DesignGetTeamSections
    \/ \E i \in 1..Len(tasks) : DesignEnrich(i)
    \/ \E i \in 1..Len(tasks) : DesignImage(i)
    \/ DesignGatherDone
    \/ SportsListClubs
    \/ \E i \in 1..Len(tasks) : SportsGoto(i)
    \/ \E i \in 1..Len(tasks) : SportsEnrich(i)
    \/ SportsGatherDone
    \/ SportsBrowserClose
    \/ FacultyStart
    \/ \E i \in 1..Len(tasks) : FacultySkip(i)
    \/ \E i \in 1..Len(tasks) : FacultyFetch(i)
    \/ \E i \in 1..Len(tasks) : FacultyEnrich(i)
    \/ FacultyGatherDone
    \/ SaveData
    \/ MainReturn

Spec == Init /\ [][Next]_vars

(***************************************************************************)
(* SupabaseSync.  A snapshot file as sync_type finds it is missing, is     *)
(* malformed (no JSON, or no "data" key), or holds a data list.  A club of *)
(* the list has a name and the rest of its fields, v.                      *)
(***************************************************************************)
TypeNames == {"wusa", "design"}

ClubDicts == { [name |-> "a", v |-> 1], [name |-> "a", v |-> 2], [name |-> "b", v |-> 1] }

SnapshotFiles ==
    { [state |-> "missing", data |-> <<>>], [state |-> "malformed", data |-> <<>>] }
    \cup { [state |-> "ok", data |-> d] : d \in SeqsUpTo(ClubDicts, MaxClubs) }

TypeLists == SeqsUpTo(TypeNames, MaxTypes) \ { <<>> }

\* an upsert_clubs that sets org_type only where the record has none
KeepOrgType(clubs, org_type) ==
    [i \in 1..Len(clubs) |->
        [name |-> clubs[i].name,
         org_type |-> IF clubs[i].org_type = "none" THEN org_type ELSE clubs[i].org_type,
         v |-> clubs[i].v]]

\* upsert_clubs: club["org_type"] = org_type for each club
SetOrgType(clubs, org_type) ==
    [i \in 1..Len(clubs) |-> [name |-> clubs[i].name, org_type |-> org_type, v |-> clubs[i].v]]

SameKey(r, c) == r.name = c.name /\ r.org_type = c.org_type

\* an insert that does not look at the key
InsertRow(rows, club) == rows \cup { club }

\* an upsert that keeps the row it finds (ignore_duplicates)
KeepRow(rows, club) ==
    IF \E r \in rows : SameKey(r, club) THEN rows ELSE rows \cup { club }

\* one row of .upsert(..., on_conflict="name,org_type"): the rows with the
\* key of the club are replaced by the club
UpsertRow(rows, club) == { r \in rows : ~SameKey(r, club) } \cup { club }

\* .upsert(clubs, on_conflict="name,org_type").execute(), the rows in order
RECURSIVE UpsertRows(_, _)
UpsertRows(rows, clubs) ==
    IF clubs = <<>> THEN rows
    ELSE UpsertRows(UpsertRow(rows, Head(clubs)), Tail(clubs))

\* no scraper runs
RunIdle ==
    /\ scraper = "wusa"
    /\ pc = "done"
    /\ page = 1
    /\ listed = 0
    /\ httpStatus = "none"
    /\ items = <<>>
    /\ tasks = <<>>
    /\ organizations = <<>>
    /\ imgIdx = 0
    /\ allOrgs = <<>>
    /\ runStatus = "ok"
    /\ returned = <<>>
    /\ exitStatus = -1

InitSync ==
    /\ RunIdle
    /\ snapshot = NoFile
    /\ SyncIdle
    /\ ToolIdle

\* main: sync.sync_all(args.types); sync_all creates one sync_type task
\* per type
SyncAllStart ==
    /\ syncExit # "running"
    /\ \E types \in TypeLists : syncTypes' = types
    /\ syncDone' = 0
    /\ syncResults' = <<>>
    /\ syncExit' = "running"
    /\ UNCHANGED <<remote, lastBatch>>
    /\ UNCHANGED <<runVars, exitStatus, toolVars>>

\* sync_type and upsert_clubs for the next task: neither awaits anything
\* that suspends, so the task runs from start to end in one step of the
\* event loop, the tasks in the order gather created them.  The file is
\* what the scrapers left, any of SnapshotFiles; open, json.load or
\* data["data"] raise on a missing or malformed one.  The remote call
\* raises (the service is unreachable, or rejects the batch) or succeeds.
SyncTypeTask ==
    /\ syncExit = "running"
    /\ syncDone < Len(syncTypes)
    /\ LET type_name == syncTypes[syncDone + 1]
       IN  \/ /\ \E why \in {"missing", "malformed", "upsert_raised"} :
                    syncResults' = Append(syncResults, FALSE)
              /\ UNCHANGED <<remote, lastBatch>>
           \/ \E f \in { g \in SnapshotFiles : g.state = "ok" } :
                LET clubs == SetOrgType(f.data, type_name)
                IN  /\ remote' = UpsertRows(remote, clubs)
                    /\ syncResults' = Append(syncResults, TRUE)
                    /\ lastBatch' = [type |-> type_name, clubs |-> clubs]
    /\ syncDone' = syncDone + 1
    /\ UNCHANGED <<syncTypes, syncExit>>
    /\ UNCHANGED <<runVars, exitStatus, toolVars>>

\* a loop that awaits the tasks one by one and stops at the first that raises
SyncReturnsAtFirstRaise ==
    \/ syncDone = Len(syncTypes)
    \/ \E i \in 1..Len(syncResults) : ~syncResults[i]

\* await asyncio.gather(*tasks): the future of gather is resolved by the
\* done callbacks of the tasks, which the loop runs after the first step of
\* every task
SyncGatherReturns == syncDone = Len(syncTypes)

SyncAllReturn ==
    /\ syncExit = "running"
    /\ SyncGatherReturns
    /\ syncExit' = IF \E i \in 1..Len(syncResults) : ~syncResults[i]
                   THEN "raised" ELSE "ok"
    /\ UNCHANGED <<remote, syncTypes, syncDone, syncResults, lastBatch>>
    /\ UNCHANGED <<runVars, exitStatus, toolVars>>

NextSync ==
    \/ SyncAllStart
    \/ SyncTypeTask
    \/ SyncAllReturn

SpecSync == InitSync /\ [][NextSync]_vars

(***************************************************************************)
(* Claims about one run of a scraper (Spec).                               *)
(***************************************************************************)
PerItemScrapers == {"wusa", "design", "sports"}

\* the fan-out of the run has returned and its results are still at hand
FanOutReturned == scraper \in PerItemScrapers /\ pc \notin {"list", "gather"}

RecTasks == { i \in 1..Len(tasks) : tasks[i].kind = "rec" }

\* C1: the sequence a fan-out returns holds exactly the Records of the
\* items whose extraction returned a Record: every task has resolved, each
\* such Record is in the output, the output holds nothing else, and with
\* one item of N failing the output has N - 1 Records.
C1_FanOutIsolation ==
    FanOutReturned =>
        /\ \A i \in 1..Len(tasks) : tasks[i].st = "resolved"
        /\ Len(organizations) = Cardinality(RecTasks)
        /\ \A i \in RecTasks :
             \E j \in 1..Len(organizations) : organizations[j] = tasks[i].recs[1]
        /\ \A j \in 1..Len(organizations) :
             \E i \in RecTasks : organizations[j] = tasks[i].recs[1]
        /\ (Cardinality(RecTasks) = Len(tasks) - 1 => Len(organizations) = Len(tasks) - 1)

\* three items, the fetch of the second raised, the fan-out returned two
C1_Witness ==
    /\ scraper = "wusa" /\ pc = "images"
    /\ Len(tasks) = 3
    /\ tasks[2].fetch = "raise" /\ tasks[2].kind = "none"
    /\ tasks[1].kind = "rec" /\ tasks[3].kind = "rec"
    /\ Len(organizations) = 2

\* a listing request of this run raised
ListingRaised ==
    \/ httpStatus = "raise" /\ scraper \in PerItemScrapers
    \/ scraper = "faculty" /\ \E i \in 1..Len(tasks) : tasks[i].fetch = "raise"

\* a listing request of this run was answered with a non-success status
ListingNonSuccess ==
    \/ httpStatus = "non2xx" /\ scraper \in {"wusa", "design"}
    \/ scraper = "faculty" /\ \E i \in 1..Len(tasks) : tasks[i].fetch = "non2xx"

\* C2: when listing the source raises, run returns no Records and does not
\* write the snapshot file.
C2_ListingRaiseWritesNothing ==
    ListingRaised =>
        /\ snapshot.gen # "new"
        /\ (pc = "done" => returned = <<>>)

\* C3: when the listing is answered with a non-success status, the run of
\* the design, WUSA or faculty scraper produces no Records and does not
\* call save_data.
C3_NonSuccessWritesNothing ==
    ListingNonSuccess =>
        /\ snapshot.gen # "new"
        /\ (pc = "done" => returned = <<>>)

\* C4: the snapshot file is written by this run only after every item task
\* of the run has resolved.
C4_SaveAfterAllResolved ==
    snapshot.gen = "new" => \A i \in 1..Len(tasks) : tasks[i].st = "resolved"

\* the snapshot is written after a fan-out of three tasks that ended in a
\* Record, in None and in a Record
C4_Witness ==
    /\ snapshot.gen = "new"
    /\ scraper = "design"
    /\ Len(tasks) = 3
    /\ tasks[1].kind = "rec" /\ tasks[2].kind = "none" /\ tasks[3].kind = "rec"
    /\ snapshot.count = 2

\* C5: an enrichment function whose text-generation call failed, or was
\* answered with text that is no JSON, does not raise and returns a
\* fallback with an empty social_media and a description that is the input
\* text or a prefix of it.
C5_EnrichmentFallback ==
    \A i \in 1..Len(tasks) :
        tasks[i].llm \in FailedKinds =>
            /\ ~tasks[i].enr.raised
            /\ tasks[i].enr.val.sm = {}
            /\ tasks[i].enr.val.desc.src = "raw"
            /\ tasks[i].enr.val.desc.len <= items[i].len

\* C6: an item whose page was fetched and whose name was extracted yields
\* a Record with the fallback description when its enrichment call fails.
C6_EnrichmentFailureKeepsItem ==
    scraper \in PerItemScrapers =>
        \A i \in 1..Len(tasks) :
            (tasks[i].st = "resolved" /\ tasks[i].fetch = "ok"
                                      /\ tasks[i].llm \in FailedKinds) =>
                /\ tasks[i].kind = "rec"
                /\ tasks[i].recs[1].description.src = "raw"

\* C7: within one run the text-generation service is called at most once
\* per item.
C7_OneAttemptPerItem ==
    \A i \in 1..Len(tasks) : tasks[i].calls <= 1

\* an item resolved after its one call failed
C7_Witness ==
    \E i \in 1..Len(tasks) :
        /\ tasks[i].st = "resolved"
        /\ tasks[i].llm \in FailedKinds
        /\ tasks[i].calls = 1

(***************************************************************************)
(* Claims about the sync (SpecSync).                                       *)
(***************************************************************************)
\* the last club of the batch with the key of club i is club i itself
LastOfKey(b, i) == \A j \in (i + 1)..Len(b) : ~SameKey(b[j], b[i])

InBatch(b, r) == \E i \in 1..Len(b) : SameKey(r, b[i])

\* C8: the remote table holds at most one row per (name, org_type).
C8_OneRowPerKey ==
    \A r1 \in remote, r2 \in remote : SameKey(r1, r2) => r1 = r2

\* a snapshot with two records of the same name was upserted
C8_Witness ==
    /\ \E i \in 1..Len(lastBatch.clubs), j \in 1..Len(lastBatch.clubs) :
         /\ i < j
         /\ lastBatch.clubs[i].name = lastBatch.clubs[j].name
         /\ lastBatch.clubs[i].v # lastBatch.clubs[j].v
    /\ \E r \in remote : InBatch(lastBatch.clubs, r)

\* the step is a sync_type task whose upsert call succeeded
UpsertStep ==
    /\ Len(syncResults') = Len(syncResults) + 1
    /\ syncResults'[Len(syncResults')]

\* C9: a successful upsert leaves, for every key of its batch, one row
\* that carries the values of the batch, inserts the keys that were not
\* there, leaves every other row as it was, and changes nothing when the
\* batch is the one of the previous successful upsert.
C9_UpsertIdempotentLastWins ==
    [][UpsertStep =>
        LET b == lastBatch'.clubs
        IN  /\ lastBatch' = lastBatch => remote' = remote
            /\ \A i \in 1..Len(b) : LastOfKey(b, i) => b[i] \in remote'
            /\ \A r \in remote' : InBatch(b, r) => \E i \in 1..Len(b) : r = b[i]
            /\ \A r \in remote : ~InBatch(b, r) => r \in remote'
            /\ \A r \in remote' : ~InBatch(b, r) => r \in remote]_vars

\* one sync_all call synced the same type twice: the second batch gave "a"
\* its values, and the row of "b" from the first is still there
C9_Witness ==
    /\ Len(syncTypes) = 2 /\ syncTypes[1] = syncTypes[2]
    /\ syncResults = <<TRUE, TRUE>>
    /\ lastBatch.clubs = << [name |-> "a", org_type |-> syncTypes[2], v |-> 2] >>
    /\ [name |-> "a", org_type |-> syncTypes[2], v |-> 2] \in remote
    /\ [name |-> "b", org_type |-> syncTypes[2], v |-> 1] \in remote

\* C10: when sync_type fails for one type of a sync_all call, the task of
\* every other type has still run when the call ends, and neither the
\* failing task nor the end of the call changes the rows the others wrote.
C10_SyncFailureIsolated ==
    /\ [](syncExit \in {"ok", "raised"} =>
            /\ syncDone = Len(syncTypes)
            /\ Len(syncResults) = Len(syncTypes))
    /\ [][(/\ Len(syncResults') = Len(syncResults) + 1
           /\ ~syncResults'[Len(syncResults')]) => remote' = remote]_vars
    /\ [][(syncExit = "running" /\ syncExit' # "running") => remote' = remote]_vars

\* a call of two types ended raising: the first task failed, the second
\* upserted its batch, and the rows are there
C10_Witness ==
    /\ syncExit = "raised"
    /\ Len(syncTypes) = 2 /\ syncTypes[1] # syncTypes[2]
    /\ syncResults = <<FALSE, TRUE>>
    /\ lastBatch.type = syncTypes[2]
    /\ lastBatch.clubs # <<>>
    /\ \A i \in 1..Len(lastBatch.clubs) :
         LastOfKey(lastBatch.clubs, i) => lastBatch.clubs[i] \in remote

(***************************************************************************)
(* One call of SupabaseSync.sync_type, statement by statement.  A record   *)
(* of the snapshot's data list holds an org_type of its own ("wusa",       *)
(* "design_team") or none ("none": the key is absent).                     *)
(***************************************************************************)
\* main: the choices of --types
CliTypes == {"wusa", "design", "faculty", "sports"}

FileOrgTypes == {"none", "wusa", "design_team"}

FileClubs == { [name |-> n, org_type |-> o, v |-> 1] : n \in {"a", "b"}, o \in FileOrgTypes }

DataLists == SeqsUpTo(FileClubs, MaxClubs)

\* sync_type up to the call of upsert_clubs: open, json.load, data["data"]
SyncTypeLoad ==
    /\ stPc = "idle"
    /\ \E t \in CliTypes, f \in {"missing", "malformed", "ok"} :
         /\ stType' = t
         /\ IF f = "ok"
            THEN \E d \in DataLists :
                   /\ stFile' = d
                   /\ stClubs' = d
                   /\ stPc' = "loaded"
            ELSE /\ stPc' = "load_raised"
                 /\ UNCHANGED <<stFile, stClubs>>
    /\ UNCHANGED <<stCalls, exitStatus>>
    /\ UNCHANGED <<slugVars, imgVars, tagVars, moreVars>>
    /\ UNCHANGED <<runVars, syncVars>>

\* upsert_clubs: the loop that sets org_type
UpsertClubsSetOrgType ==
    /\ stPc = "loaded"
    /\ stClubs' = SetOrgType(stClubs, stType)
    /\ stPc' = "typed"
    /\ UNCHANGED <<stType, stFile, stCalls, exitStatus>>
    /\ UNCHANGED <<slugVars, imgVars, tagVars, moreVars>>
    /\ UNCHANGED <<runVars, syncVars>>

\* upsert_clubs: the upsert call, which raises or is applied
UpsertClubsExecute ==
    /\ stPc = "typed"
    /\ stCalls' = Append(stCalls, stClubs)
    /\ \E ok \in BOOLEAN :
         IF ok
         THEN /\ remote' = UpsertRows(remote, stClubs)
              /\ lastBatch' = [type |-> stType, clubs |-> stClubs]
              /\ stPc' = "returned"
         ELSE /\ stPc' = "upsert_raised"
              /\ UNCHANGED <<remote, lastBatch>>
    /\ UNCHANGED <<stType, stFile, stClubs, exitStatus>>
    /\ UNCHANGED <<slugVars, imgVars, tagVars, moreVars>>
    /\ UNCHANGED <<syncTypes, syncDone, syncResults, syncExit>>
    /\ UNCHANGED runVars

NextSyncType ==
    \/ SyncTypeLoad
    \/ UpsertClubsSetOrgType
    \/ UpsertClubsExecute

SpecSyncType == InitSync /\ [][NextSyncType]_vars

(***************************************************************************)
(* Claims about one sync_type call (SpecSyncType).                         *)
(***************************************************************************)
\* the call got past the load of the snapshot and has ended
SyncTypeEnded == stPc \in {"returned", "upsert_raised"}

C12_SentOrgTypeInEnum ==
    \A c \in 1..Len(stCalls) :
        \A i \in 1..Len(stCalls[c]) : stCalls[c][i].org_type \in OrgType

(***************************************************************************)
(* Further claims about one run of a scraper (Spec).                       *)
(***************************************************************************)
\* the enrichment call of task i was answered with JSON of the expected
\* shape
WellFormedAnswer(i) ==
    /\ tasks[i].llm = "obj"
    /\ ~tasks[i].enr.raised
    /\ tasks[i].enr.val.smok

\* C13: an item whose page fetch succeeded, whose name is present and whose
\* enrichment call returned well-formed JSON of the expected shape yields
\* one Record.
C13_WellFormedItemYieldsRecord ==
    scraper \in PerItemScrapers =>
        \A i \in 1..Len(tasks) :
            (tasks[i].st = "resolved" /\ tasks[i].fetch = "ok" /\ WellFormedAnswer(i)) =>
                /\ tasks[i].kind = "rec"
                /\ Len(tasks[i].recs) = 1

\* C14: every Record an item task returned has a non-empty name, org_type
\* and last_active; an item whose name is the empty string yields no Record.
C14_RequiredFieldsNonEmpty ==
    \A i \in 1..Len(tasks) :
        \A j \in 1..Len(tasks[i].recs) :
            /\ tasks[i].recs[j].name # ""
            /\ tasks[i].recs[j].org_type # ""
            /\ tasks[i].recs[j].last_active # ""

(***************************************************************************)
(* generate_slug.  A name is a sequence of characters, one of each class:  *)
(* a lowercase letter, an uppercase letter, a digit, a hyphen, a space and *)
(* a letter outside ASCII.                                                 *)
(***************************************************************************)
MaxNameLen == 4

Chars == {"a", "B", "7", "-", " ", "é"}

Names == SeqsUpTo(Chars, MaxNameLen)

\* the characters the pattern [a-z0-9] matches
SlugAlnum == {"a", "b", "7"}

\* str.lower, per character
LowerChar(c) == IF c = "B" THEN "b" ELSE c

Lower(s) == [i \in 1..Len(s) |-> LowerChar(s[i])]

\* s without its longest prefix of characters outside [a-z0-9]
RECURSIVE DropRun(_)
DropRun(s) ==
    IF s = <<>> \/ Head(s) \in SlugAlnum THEN s ELSE DropRun(Tail(s))

\* a substitution of every single character outside [a-z0-9]
RECURSIVE ReSubEach(_)
ReSubEach(s) ==
    IF s = <<>> THEN <<>>
    ELSE IF Head(s) \in SlugAlnum
         THEN <<Head(s)>> \o ReSubEach(Tail(s))
         ELSE <<"-">> \o ReSubEach(Tail(s))

\* re.sub(r'[^a-z0-9]+', '-', slug): every maximal run becomes one hyphen
RECURSIVE ReSub(_)
ReSub(s) ==
    IF s = <<>> THEN <<>>
    ELSE IF Head(s) \in SlugAlnum
         THEN <<Head(s)>> \o ReSub(Tail(s))
         ELSE <<"-">> \o ReSub(DropRun(Tail(s)))

RECURSIVE LStrip(_, _)
LStrip(s, c) ==
    IF s # <<>> /\ Head(s) = c THEN LStrip(Tail(s), c) ELSE s

RECURSIVE RStrip(_, _)
RStrip(s, c) ==
    IF s # <<>> /\ s[Len(s)] = c THEN RStrip(SubSeq(s, 1, Len(s) - 1), c) ELSE s

\* str.strip('-')
Strip(s, c) == RStrip(LStrip(s, c), c)

generate_slug(name) == Strip(ReSub(Lower(name)), "-")

InitSlug ==
    /\ RunIdle
    /\ snapshot = NoFile
    /\ SyncIdle
    /\ StIdle /\ ImgIdle /\ TagIdle /\ MoreIdle
    /\ slugName \in Names
    /\ slugs = <<>>

\* one call generate_slug(slugName); two calls are observed per name
GenerateSlug ==
    /\ Len(slugs) < 2
    /\ slugs' = Append(slugs, generate_slug(slugName))
    /\ UNCHANGED <<slugName, exitStatus>>
    /\ UNCHANGED <<runVars, syncVars, stVars, imgVars, tagVars, moreVars>>

NextSlug == GenerateSlug

SpecSlug == InitSlug /\ [][NextSlug]_vars

(***************************************************************************)
(* Claims about generate_slug (SpecSlug).                                  *)
(***************************************************************************)
\* C15: the calls of generate_slug on one name return the same slug, and a
\* slug holds only characters of [a-z0-9] and hyphens, no two hyphens side
\* by side, and no hyphen at its start or end.
C15_SlugWellFormed ==
    \A k \in 1..Len(slugs) :
        LET g == slugs[k]
        IN  /\ g = slugs[1]
            /\ \A i \in 1..Len(g) : g[i] \in SlugAlnum \cup {"-"}
            /\ \A i \in 1..(Len(g) - 1) : ~(g[i] = "-" /\ g[i + 1] = "-")
            /\ g # <<>> => (g[1] # "-" /\ g[Len(g)] # "-")

\* a name with an uppercase letter and a run of two characters outside
\* [a-z0-9] between two others, slugged twice
C15_Witness ==
    /\ slugName = <<"B", " ", "-", "7">>
    /\ slugs = << <<"b", "-", "7">>, <<"b", "-", "7">> >>

\* the list l holds no element twice
NoDuplicates(l) == \A i \in 1..Len(l), j \in 1..Len(l) : l[i] = l[j] => i = j

\* C16: in every Record of an item task and in every record of the
\* snapshot this run wrote, each social_media list is non-empty and holds
\* no URL twice.
C16_SocialMediaDeduplicated ==
    /\ \A i \in 1..Len(tasks) :
         \A j \in 1..Len(tasks[i].recs) :
             \A e \in tasks[i].recs[j].social_media :
                 e[2] # <<>> /\ NoDuplicates(e[2])
    /\ snapshot.gen = "new" =>
         \A k \in 1..Len(snapshot.data) :
             \A e \in snapshot.data[k].social_media :
                 e[2] # <<>> /\ NoDuplicates(e[2])

(***************************************************************************)
(* The snapshot file of one source type ("wusa") under the two functions   *)
(* that write it: BaseScraper.save_data, called with a list of             *)
(* Organizations, and tags.process_type, which reads the file, tags every  *)
(* club and calls tags.save_data with the list of dicts.                   *)
(***************************************************************************)
\* two Organizations, the second without a description
OrgPool ==
    { Organization("a", "wusa", LlmText, {}, 1, "Unknown"),
      Organization("b", "wusa", NullText, {}, 2, "Unknown") }

OrgLists == SeqsUpTo(OrgPool, MaxClubs)

\* what tag_club returns: the tags of the answer, or [] when the answer
\* does not parse
TagLists == { <<>>, <<"Tech">> }

\* an assignment that keeps nothing of the club but its name
OnlyNameAndTags(club, tags) == [name |-> club.name, tags |-> tags]

\* club["tags"] = tags
WithTags(club, tags) ==
    [k \in DOMAIN club \cup {"tags"} |-> IF k = "tags" THEN tags ELSE club[k]]

\* tags.save_data
TagsSavedFile(type_name, clubs) ==
    [exists |-> TRUE, scraper |-> type_name, count |-> Len(clubs),
     data |-> clubs, gen |-> "new"]

InitStore ==
    /\ RunIdle
    /\ snapshot \in {NoFile, OldFile(scraper)}
    /\ SyncIdle
    /\ ToolIdle

\* BaseScraper.save_data(data)
BaseSaveData ==
    /\ tagPc \in {"idle", "raised"}
    /\ \E data \in OrgLists :
         /\ snapshot' = SavedFile(scraper, data)
         /\ saveArgs' = [by |-> "base", name |-> scraper, records |-> data]
    /\ UNCHANGED <<tagPc, tagClubs>>
    /\ UNCHANGED <<scraper, pc, page, listed, httpStatus, items, tasks, organizations,
                   imgIdx, allOrgs, runStatus, returned, exitStatus>>
    /\ UNCHANGED <<syncVars, stVars, slugVars, imgVars, moreVars>>

\* process_type up to the gather: returns when there is no file, else
\* loads clubs = data["data"]
TagsProcessType ==
    /\ tagPc \in {"idle", "raised"}
    /\ IF snapshot.exists
       THEN /\ tagClubs' = [i \in 1..Len(snapshot.data) |->
                               [club |-> snapshot.data[i], done |-> FALSE]]
            /\ tagPc' = "tagging"
       ELSE /\ tagClubs' = <<>>
            /\ tagPc' = "idle"
    /\ UNCHANGED saveArgs
    /\ UNCHANGED <<runVars, exitStatus>>
    /\ UNCHANGED <<syncVars, stVars, slugVars, imgVars, moreVars>>

\* add_tags(club): tag_club raises when the call of the service raises
\* (gather then raises into process_type), else sets club["tags"]
AddTags(i) ==
    /\ tagPc = "tagging"
    /\ ~tagClubs[i].done
    /\ \/ /\ tagPc' = "raised"
          /\ UNCHANGED tagClubs
       \/ /\ \E tags \in TagLists :
               tagClubs' = [tagClubs EXCEPT ![i] =
                              [club |-> WithTags(@.club, tags), done |-> TRUE]]
          /\ UNCHANGED tagPc
    /\ UNCHANGED saveArgs
    /\ UNCHANGED <<runVars, exitStatus>>
    /\ UNCHANGED <<syncVars, stVars, slugVars, imgVars, moreVars>>

\* process_type after the gather: save_data(type_name, clubs)
TagsSaveData ==
    /\ tagPc = "tagging"
    /\ \A i \in 1..Len(tagClubs) : tagClubs[i].done
    /\ LET clubs == [i \in 1..Len(tagClubs) |-> tagClubs[i].club]
       IN  /\ snapshot' = TagsSavedFile(scraper, clubs)
           /\ saveArgs' = [by |-> "tags", name |-> scraper, records |-> clubs]
    /\ tagPc' = "idle"
    /\ tagClubs' = <<>>
    /\ UNCHANGED <<scraper, pc, page, listed, httpStatus, items, tasks, organizations,
                   imgIdx, allOrgs, runStatus, returned, exitStatus>>
    /\ UNCHANGED <<syncVars, stVars, slugVars, imgVars, moreVars>>

NextStore ==
    \/ BaseSaveData
    \/ TagsProcessType
    \/ \E i \in 1..Len(tagClubs) : AddTags(i)
    \/ TagsSaveData

SpecStore == InitStore /\ [][NextStore]_vars

(***************************************************************************)
(* Claims about the snapshot file (SpecStore).                             *)
(***************************************************************************)
\* the plain representation of a record passed to save_data
Plain(by, r) == IF by = "base" THEN ToDict(r) ELSE r

\* C17: after a save_data call the snapshot file holds the name passed as
\* scraper, the length of the list passed as count, and a data list whose
\* i-th element is the plain representation of the i-th record passed, and
\* nothing else; for BaseScraper.save_data and for tags.save_data.
C17_SnapshotIsWhatWasSaved ==
    saveArgs # NoSave =>
        /\ snapshot.exists
        /\ snapshot.scraper = saveArgs.name
        /\ snapshot.count = Len(saveArgs.records)
        /\ Len(snapshot.data) = Len(saveArgs.records)
        /\ \A i \in 1..Len(saveArgs.records) :
             snapshot.data[i] = Plain(saveArgs.by, saveArgs.records[i])

\* BaseScraper.save_data wrote one record without a description over a
\* file that held another
C17_Witness ==
    /\ saveArgs.by = "base"
    /\ Len(saveArgs.records) = 1
    /\ saveArgs.records[1].description = NullText
    /\ snapshot.count = 1
    /\ "description" \notin DOMAIN snapshot.data[1]
    /\ snapshot.data[1].name = "b"

(***************************************************************************)
(* Further claims about one run of a scraper (Spec), continued.            *)
(***************************************************************************)
\* tasks i and j both returned a Record, and the two Records have one name
\* (and so one (name, org_type))
SameNameRecords(i, j) ==
    /\ i \in RecTasks /\ j \in RecTasks /\ i < j
    /\ tasks[i].recs[1].name = tasks[j].recs[1].name

\* C18: when two items of a fan-out yield Records of the same name, both
\* are in the output of the fan-out, at two positions, and both are in the
\* data list of the snapshot the run writes.
C18_NoDedupByName ==
    /\ FanOutReturned =>
         \A i \in 1..Len(tasks), j \in 1..Len(tasks) :
             SameNameRecords(i, j) =>
                 \E p \in 1..Len(organizations), q \in 1..Len(organizations) :
                     /\ p < q
                     /\ organizations[p] = tasks[i].recs[1]
                     /\ organizations[q] = tasks[j].recs[1]
    /\ (snapshot.gen = "new" /\ scraper \in {"design", "sports"}) =>
         \A i \in 1..Len(tasks), j \in 1..Len(tasks) :
             SameNameRecords(i, j) =>
                 \E p \in 1..Len(snapshot.data), q \in 1..Len(snapshot.data) :
                     /\ p < q
                     /\ snapshot.data[p] = ToDict(tasks[i].recs[1])
                     /\ snapshot.data[q] = ToDict(tasks[j].recs[1])

\* the first and the third design team carry the same name, both yielded a
\* Record, and the snapshot holds both
C18_Witness ==
    /\ scraper = "design"
    /\ snapshot.gen = "new"
    /\ Len(tasks) = 3
    /\ SameNameRecords(1, 3)
    /\ tasks[2].kind = "none"
    /\ snapshot.count = 2
    /\ snapshot.data[1].name = "a" /\ snapshot.data[2].name = "a"

(***************************************************************************)
(* Image download: download_and_save_club_image (WUSA),                    *)
(* download_team_image (design) and download_club_image (faculty) over the *)
(* image directory of the scraper.  A file is [path, content], its path    *)
(* <<safe_name, ext>>; the image a URL serves is a content 1..MaxContent.  *)
(***************************************************************************)
MaxContent == 2

ImgScrapers == {"wusa", "design", "faculty"}

\* club names: "B a" and "é!"
ClubNames == { <<"B", " ", "a">>, <<"é", "!">> }

\* the extension of the path of the image URL
UrlExts == {".png", ".svg"}

\* the content-type of the image response
ContentTypes == {"image/png", "text/html"}

\* c.isalnum() or c in ('-', '_', ' ')
SafeChar(c) == c \in {"a", "b", "B", "7", "é", "-", "_", " "}

RECURSIVE KeepSafe(_)
KeepSafe(s) ==
    IF s = <<>> THEN <<>>
    ELSE IF SafeChar(Head(s)) THEN <<Head(s)>> \o KeepSafe(Tail(s))
    ELSE KeepSafe(Tail(s))

\* safe_name: keep the safe characters, .replace(' ', '-').lower().strip('-')
SafeName(name) ==
    LET kept == KeepSafe(name)
        hyph == [i \in 1..Len(kept) |-> IF kept[i] = " " THEN "-" ELSE kept[i]]
    IN  Strip(Lower(hyph), "-")

WusaExt(e) == IF e \in {".jpg", ".jpeg", ".png", ".gif", ".webp"} THEN e ELSE ".jpg"

DesignExt(e) ==
    IF e \in {".jpg", ".jpeg", ".png", ".gif", ".webp", ".svg"} THEN e ELSE ".jpg"

\* the chain of tests on content_type
FacultyExt(ct) ==
    IF ct = "image/png" THEN ".png"
    ELSE IF ct = "image/svg+xml" THEN ".svg"
    ELSE ".jpg"

Exists(path) == \E f \in imgFiles : f.path = path

\* aiofiles.open(filepath, 'wb') and the writes of the chunks
WriteFile(path, content) ==
    { f \in imgFiles : f.path # path } \cup { [path |-> path, content |-> content] }

Download(name, outcome, path, fetched, files) ==
    /\ imgFiles' = files
    /\ imgLast' = [name |-> name, outcome |-> outcome, existed |-> Exists(path),
                   fetched |-> fetched, changed |-> files # imgFiles, path |-> path]

InitImage ==
    /\ RunIdle
    /\ snapshot = NoFile
    /\ SyncIdle
    /\ StIdle /\ SlugIdle /\ TagIdle /\ MoreIdle
    /\ imgScraper \in ImgScrapers
    /\ imgFiles = {}
    /\ imgLast = NoDownload

\* WUSAScraper.download_and_save_club_image
WusaDownloadAndSave ==
    /\ imgScraper = "wusa"
    /\ \E name \in ClubNames, e \in UrlExts, resp \in {"raise", "non200", "ok"},
          content \in 1..MaxContent :
         LET path == << SafeName(name), WusaExt(e) >>
         IN  Download(name, resp, path, TRUE,
                      IF resp = "ok" THEN WriteFile(path, content) ELSE imgFiles)
    /\ UNCHANGED imgScraper
    /\ UNCHANGED <<runVars, exitStatus, syncVars, stVars, slugVars, tagVars, moreVars>>

\* DesignScraper.download_team_image
DesignDownloadTeamImage ==
    /\ imgScraper = "design"
    /\ \E name \in ClubNames, e \in UrlExts,
          resp \in {"noimg", "raise", "non200", "ok"}, content \in 1..MaxContent :
         LET path == << SafeName(name), DesignExt(e) >>
         IN  IF resp = "noimg"
             THEN Download(name, resp, path, FALSE, imgFiles)
             ELSE IF Exists(path)
             THEN Download(name, "exists", path, FALSE, imgFiles)
             ELSE Download(name, resp, path, TRUE,
                           IF resp = "ok" THEN WriteFile(path, content) ELSE imgFiles)
    /\ UNCHANGED imgScraper
    /\ UNCHANGED <<runVars, exitStatus, syncVars, stVars, slugVars, tagVars, moreVars>>

\* FacultyScraper.download_club_image
FacultyDownloadClubImage ==
    /\ imgScraper = "faculty"
    /\ \E name \in ClubNames, ct \in ContentTypes,
          resp \in {"raise", "non200", "ok"}, content \in 1..MaxContent :
         LET path == << SafeName(name), FacultyExt(ct) >>
         IN  IF resp # "ok"
             THEN Download(name, resp, path, TRUE, imgFiles)
             ELSE IF Exists(path)
             THEN Download(name, "exists", path, TRUE, imgFiles)
             ELSE Download(name, resp, path, TRUE, WriteFile(path, content))
    /\ UNCHANGED imgScraper
    /\ UNCHANGED <<runVars, exitStatus, syncVars, stVars, slugVars, tagVars, moreVars>>

NextImage ==
    \/ WusaDownloadAndSave
    \/ DesignDownloadTeamImage
    \/ FacultyDownloadClubImage

SpecImage == InitImage /\ [][NextImage]_vars

(***************************************************************************)
(* Claims about image download (SpecImage).                                *)
(***************************************************************************)
\* C19: a download whose destination file existed made no network fetch
\* of the image and left the files as they were, and the files of one club
\* name have one path.
C19_DownloadIdempotent ==
    /\ imgLast.existed => (~imgLast.fetched /\ ~imgLast.changed)
    /\ \A f \in imgFiles, g \in imgFiles : f.path[1] = g.path[1] => f.path = g.path

(***************************************************************************)
(* Claims about the exit of a scraper entry point (Spec).                  *)
(***************************************************************************)
\* C20: when the run of the scraper failed (scrape or save_data raised),
\* the entry point ends with a non-zero exit status.
C20_FailureExitsNonZero ==
    (pc = "exited" /\ runStatus = "failed") => exitStatus # 0

(***************************************************************************)
(* Claims about the scheduling of the item tasks (Spec).                   *)
(***************************************************************************)
\* C23: the fan-out of the first listing creates one item task per listed
\* item: the number of tasks equals the number of items the listing
\* returned.
C23_OneTaskPerListedItem ==
    (scraper \in PerItemScrapers /\ pc = "gather" /\ page = 1) => Len(tasks) = listed

\* the task of the k-th item, in listing order, that yielded a Record
NthRec(k) == CHOOSE i \in RecTasks : Cardinality({ j \in RecTasks : j <= i }) = k

\* C27: the Records a fan-out returns are those of the item tasks in
\* listing order, whatever the order in which the tasks resolved: the k-th
\* Record of the output is the Record of the k-th item that yielded one,
\* and so is the k-th record of the snapshot's data list.
C27_OutputInListingOrder ==
    /\ FanOutReturned =>
         /\ Len(organizations) = Cardinality(RecTasks)
         /\ \A k \in 1..Len(organizations) :
              organizations[k] = tasks[NthRec(k)].recs[1]
    /\ (snapshot.gen = "new" /\ scraper \in {"design", "sports"}) =>
         /\ Len(snapshot.data) = Cardinality(RecTasks)
         /\ \A k \in 1..Len(snapshot.data) :
              snapshot.data[k] = ToDict(tasks[NthRec(k)].recs[1])

\* three design teams all yielded Records, the first with the fallback
\* description and the third with the description of the service, and the
\* snapshot holds the three in the order of the page
C27_Witness ==
    /\ scraper = "design"
    /\ snapshot.gen = "new"
    /\ Len(tasks) = 3
    /\ \A i \in 1..3 : tasks[i].kind = "rec"
    /\ tasks[1].llm = "garbage" /\ tasks[3].llm = "obj"
    /\ snapshot.count = 3
    /\ snapshot.data[1] = ToDict(tasks[1].recs[1])
    /\ snapshot.data[3] = ToDict(tasks[3].recs[1])
    /\ snapshot.data[1] # snapshot.data[3]

(***************************************************************************)
(* Claims about the page loop of WUSAScraper.scrape (Spec).                *)
(***************************************************************************)
\* C30: WUSAScraper.scrape works through the listing pages one at a time
\* and in order: it turns to the listing of the next page only in a step in
\* which every club task of the page has resolved and the image loop has
\* passed the last organization, that step adds 1 to the page counter and
\* appends the page's output to the output so far; the loop is left
\* without raising only by a listing that returned no club links, a
\* listing that returned links always starts a fan-out on the same page,
\* and run returns the output so far.
C30_PagesInOrder ==
    [][scraper = "wusa" =>
        /\ (pc # "list" /\ pc' = "list") =>
              /\ pc = "images"
              /\ \A i \in 1..Len(tasks) : tasks[i].st = "resolved"
              /\ imgIdx > Len(organizations)
              /\ page' = page + 1
              /\ Len(allOrgs') = Len(allOrgs) + Len(organizations)
              /\ \A k \in 1..Len(allOrgs) : allOrgs'[k] = allOrgs[k]
              /\ \A k \in 1..Len(organizations) :
                   allOrgs'[Len(allOrgs) + k] = organizations[k]
        /\ (pc = "list" /\ pc' = "save") => (listed' = listed /\ httpStatus' # "raise")
        /\ (pc = "list" /\ listed' > listed) =>
              (pc' = "gather" /\ page' = page /\ Len(tasks') = listed' - listed)
        /\ (pc' # "list" \/ pc = "list") => (page' = page /\ allOrgs' = allOrgs)
        /\ (pc = "save" /\ runStatus' = "ok") => returned' = allOrgs]_vars

\* a run over three pages: one club on the first, two on the second, none
\* on the third; run returned the three Records in the order of the pages
C30_Witness ==
    /\ scraper = "wusa"
    /\ pc = "done" /\ runStatus = "ok"
    /\ page = 3
    /\ Len(returned) = 3
    /\ \A k \in 1..3 : returned[k].source_url = k
    /\ Len(tasks) = 0
    /\ snapshot.count = 3

(***************************************************************************)
(* Claims about the log (Spec).                                            *)
(***************************************************************************)
\* the failure entries written for item i by the item task or by the loop
\* over the results of the gather (the entries process_with_llm writes when
\* it falls back are left aside)
ItemFailureEntries(i) ==
    { k \in 1..Len(tasks[i].log) :
        /\ tasks[i].log[k].level = "error"
        /\ tasks[i].log[k].by # "process_with_llm" }

\* item i was left out on purpose: no container or no name header on the
\* club page (WUSA), an empty answer of the enrichment (design)
SkippedOnPurpose(i) ==
    \/ scraper = "wusa" /\ tasks[i].fetch \in {"nocontainer", "noname"}
    \/ scraper = "design" /\ tasks[i].fetch = "ok" /\ ~Truthy(tasks[i].enr.val)

\* the extraction of item i raised
FailedUnexpectedly(i) ==
    /\ tasks[i].kind \in {"none", "exc"}
    /\ ~SkippedOnPurpose(i)

\* everything that is logged for item i has been logged
LoggingDone(i) ==
    /\ tasks[i].st = "resolved"
    /\ scraper = "sports" => pc \notin {"list", "gather"}

\* C24: in a run of the design, WUSA or sports scraper an item whose
\* extraction raised has exactly one failure entry in the log, and that
\* entry holds the item's name, URL or payload; an item that was skipped on
\* purpose or yielded a Record has none.
C24_OneFailureEntryPerFailedItem ==
    scraper \in PerItemScrapers =>
        \A i \in 1..Len(tasks) :
            LoggingDone(i) =>
                IF FailedUnexpectedly(i)
                THEN /\ Cardinality(ItemFailureEntries(i)) = 1
                     /\ \A k \in ItemFailureEntries(i) :
                          tasks[i].log[k].id \in {"url", "name_url", "payload"}
                ELSE ItemFailureEntries(i) = {}

(***************************************************************************)
(* SportsScraper, await by await.  scrape launches the browser, lists the  *)
(* clubs and gathers one scrape_single_sport task per club; each task      *)
(* opens a page of the browser, loads the club page, asks the              *)
(* text-generation service, and closes its page in the finally clause.     *)
(* The call of page.goto and the call of the service cross the network and *)
(* may never return.                                                       *)
(***************************************************************************)
NoPage == [opened |-> FALSE, closes |-> 0]

\* a finally clause that leaves the page as it is
LeavePage(p) == p

\* finally: await page.close()
ClosePage(p) == [p EXCEPT !.closes = @ + 1]

\* a call that gives up after a time limit: the task gets an exception
HangTimesOut(t) == Resolve(t, "exc", <<>>)

\* a call that never returns: the task stays suspended at its await
Hang(t) == [t EXCEPT !.st = "hung"]

sportsFrame == <<syncVars, exitStatus, stVars, slugVars, imgVars, tagVars, fenceVars, tgVars>>

InitSports == Init /\ scraper = "sports"

\* scrape up to the gather: launch, the listing page, club_info,
\* unique_clubs, one task per club
SportsScrapeStart ==
    /\ scraper = "sports" /\ pc = "list"
    /\ browser' = "open"
    /\ \E st \in {"raise", "ok", "non2xx"} :
         /\ httpStatus' = st
         /\ IF st = "ok"
            THEN \E club_info \in Listings(0) :
                   LET unique_clubs == UniqueClubs(club_info, {})
                   IN  /\ StartFanOut(unique_clubs)
                       /\ pages' = [i \in 1..Len(unique_clubs) |-> NoPage]
                       /\ UNCHANGED <<scraper, page, imgIdx, allOrgs, runStatus,
                                      returned, snapshot>>
            ELSE RunFailed /\ UNCHANGED pages
    /\ UNCHANGED sportsFrame

\* scrape_single_sport: page = await browser.new_page(), before the try
SportsNewPage(i) ==
    /\ scraper = "sports" /\ pc = "gather"
    /\ tasks[i].st = "pending"
    /\ \E r \in {"raise", "ok"} :
         IF r = "ok"
         THEN /\ tasks' = [tasks EXCEPT ![i].st = "opened"]
              /\ pages' = [pages EXCEPT ![i].opened = TRUE]
         ELSE /\ tasks' = [tasks EXCEPT ![i] = Resolve([@ EXCEPT !.fetch = "nopage"], "exc", <<>>)]
              /\ UNCHANGED pages
    /\ UNCHANGED <<scraper, pc, page, listed, httpStatus, items, organizations, imgIdx,
                   allOrgs, runStatus, returned, snapshot, browser>>
    /\ UNCHANGED sportsFrame

\* scrape_single_sport, the try block up to the call of process_with_llm:
\* goto, wait_for_selector, content; an exception leads to the finally clause
SportsPageGoto(i) ==
    /\ scraper = "sports" /\ pc = "gather"
    /\ tasks[i].st = "opened"
    /\ \E f \in {"raise", "nocontent", "ok"} :
         tasks' = [tasks EXCEPT ![i] =
                     IF f = "ok"
                     THEN [@ EXCEPT !.st = "fetched", !.fetch = f]
                     ELSE [@ EXCEPT !.st = "closing", !.fetch = f, !.kind = "exc"]]
    /\ UNCHANGED <<scraper, pc, page, listed, httpStatus, items, organizations, imgIdx,
                   allOrgs, runStatus, returned, snapshot, browser, pages>>
    /\ UNCHANGED sportsFrame

\* the await of page.goto, or of the call of the service, never returns
SportsCallHangs(i) ==
    /\ scraper = "sports" /\ pc = "gather"
    /\ tasks[i].st \in {"opened", "fetched"}
    /\ tasks' = [tasks EXCEPT ![i] =
                   IF @.st = "opened"
                   THEN Hang([@ EXCEPT !.fetch = "hang"])
                   ELSE Hang([@ EXCEPT !.llm = "hang"])]
    /\ UNCHANGED <<scraper, pc, page, listed, httpStatus, items, organizations, imgIdx,
                   allOrgs, runStatus, returned, snapshot, browser, pages>>
    /\ UNCHANGED sportsFrame

\* process_with_llm returns the Organization or raises; then the finally
\* clause
SportsPageLlm(i) ==
    /\ scraper = "sports" /\ pc = "gather"
    /\ tasks[i].st = "fetched"
    /\ \E a \in LlmAnswers :
         LET b == SportsBuild(items[i], SportsParse(a))
         IN  tasks' = [tasks EXCEPT ![i] =
                         [@ EXCEPT !.st = "closing", !.calls = @ + 1,
                                   !.kind = b.kind, !.recs = b.recs]]
    /\ UNCHANGED <<scraper, pc, page, listed, httpStatus, items, organizations, imgIdx,
                   allOrgs, runStatus, returned, snapshot, browser, pages>>
    /\ UNCHANGED sportsFrame

\* finally: await page.close(); the task ends with the result of the try
\* block, or with the exception of close
SportsPageClose(i) ==
    /\ scraper = "sports" /\ pc = "gather"
    /\ tasks[i].st = "closing"
    /\ pages' = [pages EXCEPT ![i] = ClosePage(@)]
    /\ \E r \in {"raise", "ok"} :
         tasks' = [tasks EXCEPT ![i] =
                     IF r = "ok" THEN Resolve(@, @.kind, @.recs)
                     ELSE Resolve(@, "exc", <<>>)]
    /\ UNCHANGED <<scraper, pc, page, listed, httpStatus, items, organizations, imgIdx,
                   allOrgs, runStatus, returned, snapshot, browser>>
    /\ UNCHANGED sportsFrame

\* the steps of the task of item i
SportsItemTask(i) ==
    /\ i \in 1..Len(tasks)
    /\ \/ SportsNewPage(i)
       \/ SportsPageGoto(i)
       \/ SportsCallHangs(i)
       \/ SportsPageLlm(i)
       \/ SportsPageClose(i)

\* process_clubs_concurrent: gather returned, the exceptions among the
\* results are logged; scrape extends
SportsGatherReturn ==
    /\ scraper = "sports" /\ pc = "gather"
    /\ AllResolved
    /\ organizations' = Collect(tasks)
    /\ tasks' = LogExceptions(tasks, "process_clubs_concurrent", "name_url")
    /\ allOrgs' = allOrgs \o organizations'
    /\ pc' = "close"
    /\ UNCHANGED <<scraper, page, listed, httpStatus, items, imgIdx, runStatus,
                   returned, snapshot, browser, pages>>
    /\ UNCHANGED sportsFrame

\* scrape: await browser.close(), then return; an exception of close reaches
\* run's except branch
SportsCloseBrowser ==
    /\ scraper = "sports" /\ pc = "close"
    /\ browser' = "closed"
    /\ \E r \in {"raise", "ok"} :
         IF r = "ok"
         THEN /\ pc' = "save"
              /\ UNCHANGED <<scraper, page, listed, items, tasks, organizations, imgIdx,
                             allOrgs, runStatus, returned, snapshot>>
         ELSE RunFailed
    /\ UNCHANGED <<httpStatus, pages>>
    /\ UNCHANGED sportsFrame

\* the steps of scrape, run and main
SportsMainTask ==
    \/ SportsScrapeStart
    \/ SportsGatherReturn
    \/ SportsCloseBrowser
    \/ SaveData
    \/ MainReturn

NextSports ==
    \/ SportsScrapeStart
    \/ \E i \in 1..Len(tasks) : SportsNewPage(i)
    \/ \E i \in 1..Len(tasks) : SportsPageGoto(i)
    \/ \E i \in 1..Len(tasks) : SportsCallHangs(i)
    \/ \E i \in 1..Len(tasks) : SportsPageLlm(i)
    \/ \E i \in 1..Len(tasks) : SportsPageClose(i)
    \/ SportsGatherReturn
    \/ SportsCloseBrowser
    \/ SaveData
    \/ MainReturn

\* The event loop runs every task that is ready: a task that is not
\* suspended takes its next step, and an await ends (or is seen to hang).
SpecSports ==
    /\ InitSports
    /\ [][NextSports]_vars
    /\ \A i \in 1..MaxItems : WF_vars(SportsItemTask(i))
    /\ WF_vars(SportsMainTask)

(***************************************************************************)
(* Claims about the sports scraper (SpecSports).                           *)
(***************************************************************************)
\* a network call of the task of item i never returned
CallHung(i) == tasks[i].fetch = "hang" \/ tasks[i].llm = "hang"

\* C21: when a network call of one item task never returns, the fan-out
\* never completes: the run stays in the gather, never returns, never
\* writes the snapshot and never exits, and the hung task stays as it is;
\* the other item tasks of the fan-out still run to their end.
C21_HungCallBlocksFanOut ==
    /\ [](\A i \in 1..Len(tasks) :
            CallHung(i) =>
                /\ pc = "gather"
                /\ runStatus = "running"
                /\ snapshot.gen # "new"
                /\ browser = "open"
                /\ exitStatus = -1)
    /\ [][\A i \in 1..Len(tasks) :
            CallHung(i) => (i \in 1..Len(tasks') /\ tasks'[i] = tasks[i])]_vars
    /\ (pc = "gather") ~>
          (\A i \in 1..Len(tasks) : tasks[i].st = "resolved" \/ CallHung(i))

\* the page load of the second of three clubs never returned; the tasks of
\* the first and the third have ended, and the run is still in the gather
C21_Witness ==
    /\ pc = "gather"
    /\ Len(tasks) = 3
    /\ tasks[2].fetch = "hang" /\ tasks[2].st = "hung"
    /\ tasks[1].st = "resolved" /\ tasks[3].st = "resolved"
    /\ pages[1].closes = 1 /\ pages[3].closes = 1
    /\ snapshot.gen # "new"

\* C29: a page scrape_single_sport opened is closed once when the task
\* ends, whether the task ends with a result or with an exception, and is
\* never closed twice; a task that opened no page closes none; and when
\* browser.close() has been executed every item task has ended and every
\* page that was opened has been closed.
C29_PagesClosedBeforeBrowser ==
    /\ Len(pages) = Len(tasks)
    /\ \A i \in 1..Len(tasks) :
         /\ pages[i].closes <= 1
         /\ pages[i].closes = 1 => pages[i].opened
         /\ tasks[i].st = "resolved" => (pages[i].opened <=> pages[i].closes = 1)
         /\ tasks[i].st \in {"pending", "opened", "fetched", "closing"} =>
              pages[i].closes = 0
    /\ browser = "closed" =>
         \A i \in 1..Len(tasks) :
             /\ tasks[i].st = "resolved"
             /\ pages[i].opened => pages[i].closes = 1

\* three clubs: new_page raised for the first, the page load raised for
\* the second, the third got as far as the answer of the service; the
\* browser has been closed
C29_Witness ==
    /\ browser = "closed"
    /\ Len(tasks) = 3
    /\ tasks[1].fetch = "nopage" /\ ~pages[1].opened /\ pages[1].closes = 0
    /\ tasks[2].fetch = "raise" /\ pages[2].opened /\ pages[2].closes = 1
    /\ tasks[3].fetch = "ok" /\ tasks[3].calls = 1 /\ pages[3].closes = 1
    /\ \A i \in 1..3 : tasks[i].st = "resolved"

(***************************************************************************)
(* Parsing the response of the text-generation service.  A response is a   *)
(* sequence of pieces of text: "fence" (three backquotes), "json", a line  *)
(* break, the braces of a JSON object, and "t", a piece of text that holds *)
(* neither a backquote nor a letter of "json".  A payload is "{" w1 ... wn *)
(* "}" with every w "t" or "json": it stands for a JSON object whose text  *)
(* is made of these words, and it encodes the structure <<w1, ..., wn>>.   *)
(***************************************************************************)
MaxWords == 2

Fence == "fence"

Words == {"t", "json"}

Payloads == SeqsUpTo(Words, MaxWords)

PayloadText(ws) == <<"{">> \o ws \o <<"}">>

\* the responses: the payload alone, or between an opening fence, with or
\* without the language marker, and a closing fence, on lines of their own
\* or not
Responses ==
    { [payload |-> ws, content |-> PayloadText(ws)] : ws \in Payloads }
    \cup { [payload |-> ws,
            content |-> <<Fence>> \o marker \o br \o PayloadText(ws) \o br \o <<Fence>>] :
              ws \in Payloads, marker \in { <<>>, <<"json">> }, br \in { <<>>, <<"\n">> } }

\* s[k:] starts with pat (k counts from 0)
StartsAt(s, pat, k) ==
    /\ k + Len(pat) <= Len(s)
    /\ \A j \in 1..Len(pat) : s[k + j] = pat[j]

\* s.find(pat, start)
Find(s, pat, start) ==
    LET hits == { k \in start..(Len(s) - Len(pat)) : StartsAt(s, pat, k) }
    IN  IF hits = {} THEN -1
        ELSE CHOOSE k \in hits : \A m \in hits : k <= m

\* pat in s
Contains(s, pat) == Find(s, pat, 0) # -1

\* s[a:b]
Slice(s, a, b) == SubSeq(s, a + 1, b)

\* s.split(fence)[1]
SplitSecond(s) ==
    LET a == Find(s, <<Fence>>, 0) + 1
        b == Find(s, <<Fence>>, a)
    IN  IF b = -1 THEN Slice(s, a, Len(s)) ELSE Slice(s, a, b)

\* s.replace("json", "")
RemoveJson(s) == SelectSeq(s, LAMBDA x : x # "json")

\* json.loads: the structure, or ok = FALSE when it raises
JsonLoads(s) ==
    LET t == Strip(s, "\n")
    IN  IF /\ Len(t) >= 2
           /\ t[1] = "{" /\ t[Len(t)] = "}"
           /\ \A j \in 2..(Len(t) - 1) : t[j] \in Words
        THEN [ok |-> TRUE, val |-> SubSeq(t, 2, Len(t) - 1)]
        ELSE [ok |-> FALSE, val |-> <<>>]

\* "Clean JSON from markdown if present": the text between a fence with
\* the json marker, or else a fence, and the next fence
CleanFence(c) ==
    IF Contains(c, <<Fence, "json">>)
    THEN LET start == Find(c, <<Fence, "json">>, 0) + Len(<<Fence, "json">>)
             end == Find(c, <<Fence>>, start)
         IN  IF end # -1 THEN Strip(Slice(c, start, end), "\n") ELSE c
    ELSE IF Contains(c, <<Fence>>)
    THEN LET start == Find(c, <<Fence>>, 0) + Len(<<Fence>>)
             end == Find(c, <<Fence>>, start)
         IN  IF end # -1 THEN Strip(Slice(c, start, end), "\n") ELSE c
    ELSE c

\* WUSAScraper.process_with_llm from response_content on; ok = FALSE is the
\* fallback of the except branches
WusaParseResponse(c) ==
    IF Strip(c, "\n") = <<>> THEN [ok |-> FALSE, val |-> <<>>]
    ELSE JsonLoads(CleanFence(c))

\* DesignScraper.process_with_llm from response_content on
DesignParseResponse(c) ==
    IF Strip(c, "\n") = <<>> THEN [ok |-> FALSE, val |-> <<>>]
    ELSE JsonLoads(CleanFence(c))

\* tag_club from content on; ok = FALSE is the except branch, which
\* returns []
TagParseResponse(c) ==
    JsonLoads(IF Contains(c, <<Fence>>)
              THEN Strip(RemoveJson(SplitSecond(c)), "\n")
              ELSE c)

Parsers == {"wusa", "design", "tags"}

ParseResponse(by, c) ==
    IF by = "wusa" THEN WusaParseResponse(c)
    ELSE IF by = "design" THEN DesignParseResponse(c)
    ELSE TagParseResponse(c)

InitFence ==
    /\ RunIdle
    /\ snapshot = NoFile
    /\ SyncIdle
    /\ StIdle /\ SlugIdle /\ ImgIdle /\ TagIdle /\ PageIdle /\ TgIdle
    /\ fenceResp \in Responses
    /\ fenceOut = <<>>

\* one of the three parsers is given the response
Parse ==
    /\ \E by \in Parsers :
         /\ \A k \in 1..Len(fenceOut) : fenceOut[k].by # by
         /\ LET r == ParseResponse(by, fenceResp.content)
            IN  fenceOut' = Append(fenceOut, [by |-> by, ok |-> r.ok, val |-> r.val])
    /\ UNCHANGED fenceResp
    /\ UNCHANGED <<runVars, syncVars, exitStatus, stVars, slugVars, imgVars, tagVars,
                   pageVars, tgVars>>

NextFence == Parse

SpecFence == InitFence /\ [][NextFence]_vars

(***************************************************************************)
(* Claims about response parsing (SpecFence).                              *)
(***************************************************************************)
\* C25: for a response that is a valid JSON payload, alone or between an
\* opening fence (with or without the json marker) and a closing fence,
\* every parser returns the structure the payload encodes, also when the
\* text of the payload contains "json".
C25_FencedResponseParsed ==
    \A k \in 1..Len(fenceOut) :
        /\ fenceOut[k].ok
        /\ fenceOut[k].val = fenceResp.payload

(***************************************************************************)
(* tags.main(types): one process_type task per element of types, gathered. *)
(* Each task reads the snapshot file of its type, gathers one add_tags     *)
(* task per club, and writes the file.  Every type has a file of its own;  *)
(* a file is missing, malformed, or holds the two clubs a scraper run      *)
(* left, the second with tags of an earlier tagging.                       *)
(***************************************************************************)
MalformedFile ==
    [exists |-> TRUE, scraper |-> "", count |-> 0, data |-> <<>>, gen |-> "malformed"]

ScrapedClubs(t) ==
    << ToDict(Organization("a", t, LlmText, {}, 1, "Unknown")),
       WithTags(ToDict(Organization("b", t, NullText, {}, 2, "Unknown")), <<"Old">>) >>

ScrapedFile(t) ==
    [exists |-> TRUE, scraper |-> t, count |-> 2, data |-> ScrapedClubs(t), gen |-> "old"]

TgFileStates == {NoFile, MalformedFile} \cup {ScrapedFile(t) : t \in TypeNames}

tgFrame == <<runVars, syncVars, exitStatus, stVars, slugVars, imgVars, tagVars,
             pageVars, fenceVars>>

InitTags ==
    /\ RunIdle
    /\ snapshot = NoFile
    /\ SyncIdle
    /\ StIdle /\ SlugIdle /\ ImgIdle /\ TagIdle /\ PageIdle /\ FenceIdle
    /\ tgFiles \in {f \in [TypeNames -> TgFileStates] :
                       \A t \in TypeNames :
                           f[t] \in {NoFile, MalformedFile, ScrapedFile(t)}}
    /\ tgTypes = <<>>
    /\ tgTasks = <<>>
    /\ tgMain = "idle"

\* process_type up to its gather: returns when the file does not exist,
\* raises when it does not hold JSON with a "data" key, else loads clubs and
\* creates one add_tags task per club
ProcessTypeStart(t) ==
    LET f == tgFiles[t]
    IN  IF ~f.exists THEN [st |-> "nofile", clubs |-> <<>>]
        ELSE IF f.gen = "malformed" THEN [st |-> "load_raised", clubs |-> <<>>]
        ELSE [st |-> "tagging",
              clubs |-> [i \in 1..Len(f.data) |->
                            [club |-> f.data[i], call |-> "pending"]]]

\* main: asyncio.gather(*[process_type(t) for t in types]).  The tasks take
\* their first step in the order of types, and each runs to its first
\* await that suspends, the call of the service in add_tags: every file is
\* read before any answer arrives.
TagsMainStart ==
    /\ tgMain = "idle"
    /\ \E types \in TypeLists :
         /\ tgTypes' = types
         /\ tgTasks' = [k \in 1..Len(types) |-> ProcessTypeStart(types[k])]
    /\ tgMain' = "running"
    /\ UNCHANGED tgFiles
    /\ UNCHANGED tgFrame

\* add_tags(club) of task k: the call of the service in tag_club raises,
\* and the exception leaves tag_club, add_tags, the gather and
\* process_type; or its answer does not parse, and tag_club returns []; or
\* the answer holds tags
TagsAddTags(k, i) ==
    /\ tgMain = "running"
    /\ tgTasks[k].st = "tagging"
    /\ tgTasks[k].clubs[i].call = "pending"
    /\ \E r \in {"transport", "unparsable", "answered"} :
         tgTasks' = [tgTasks EXCEPT ![k] =
                       IF r = "transport"
                       THEN [st |-> "raised", clubs |-> <<>>]
                       ELSE [@ EXCEPT !.clubs[i] =
                               [club |-> WithTags(@.club,
                                                  IF r = "answered" THEN <<"Tech">> ELSE <<>>),
                                call |-> r]]]
    /\ UNCHANGED <<tgFiles, tgTypes, tgMain>>
    /\ UNCHANGED tgFrame

\* process_type after its gather: save_data(type_name, clubs)
TagsProcessTypeSave(k) ==
    /\ tgMain = "running"
    /\ tgTasks[k].st = "tagging"
    /\ \A i \in 1..Len(tgTasks[k].clubs) : tgTasks[k].clubs[i].call # "pending"
    /\ tgFiles' = [tgFiles EXCEPT ![tgTypes[k]] =
                     TagsSavedFile(tgTypes[k],
                                   [i \in 1..Len(tgTasks[k].clubs) |-> tgTasks[k].clubs[i].club])]
    /\ tgTasks' = [tgTasks EXCEPT ![k].st = "saved"]
    /\ UNCHANGED <<tgTypes, tgMain>>
    /\ UNCHANGED tgFrame

\* a process_type task has raised: the gather of main raises, main raises,
\* and asyncio.run cancels the tasks that have not ended
TagsMainRaise ==
    /\ tgMain = "running"
    /\ \E k \in 1..Len(tgTasks) : tgTasks[k].st \in {"load_raised", "raised"}
    /\ tgMain' = "raised"
    /\ tgTasks' = [k \in 1..Len(tgTasks) |->
                     IF tgTasks[k].st = "tagging"
                     THEN [st |-> "cancelled", clubs |-> <<>>]
                     ELSE tgTasks[k]]
    /\ UNCHANGED <<tgFiles, tgTypes>>
    /\ UNCHANGED tgFrame

\* every process_type task has returned: main returns
TagsMainReturn ==
    /\ tgMain = "running"
    /\ \A k \in 1..Len(tgTasks) : tgTasks[k].st \in {"nofile", "saved"}
    /\ tgMain' = "returned"
    /\ UNCHANGED <<tgFiles, tgTypes, tgTasks>>
    /\ UNCHANGED tgFrame

NextTags ==
    \/ TagsMainStart
    \/ \E k \in 1..Len(tgTasks) : \E i \in 1..Len(tgTasks[k].clubs) : TagsAddTags(k, i)
    \/ \E k \in 1..Len(tgTasks) : TagsProcessTypeSave(k)
    \/ TagsMainRaise
    \/ TagsMainReturn

SpecTags == InitTags /\ [][NextTags]_vars

\* C22: no two concurrently scheduled tasks perform an overlapping
\* read-modify-write of the same snapshot file: two process_type tasks of
\* one type are never both between their read of the file of the type and
\* their write of it.
C22_NoOverlappingReadModifyWrite ==
    \A k1, k2 \in 1..Len(tgTasks) :
        (k1 # k2 /\ tgTypes[k1] = tgTypes[k2])
            => ~(tgTasks[k1].st = "tagging" /\ tgTasks[k2].st = "tagging")

\* a tag call of task k has failed in a way tag_club handles
TagCallFailed(k) ==
    \E i \in 1..Len(tgTasks[k].clubs) : tgTasks[k].clubs[i].call = "unparsable"

\* C26: a failure of the tag call of one club stays with that club: when
\* main has ended and no snapshot file was malformed, main has returned,
\* every type whose file exists has been saved, a club whose call failed has
\* an empty tag list and a club whose call was answered has the tags of the
\* answer.
C26_TagFailureStaysLocal ==
    (/\ tgMain \in {"returned", "raised"}
     /\ \A k \in 1..Len(tgTasks) : tgTasks[k].st # "load_raised")
        => /\ tgMain = "returned"
           /\ \A k \in 1..Len(tgTasks) :
                /\ tgTasks[k].st \in {"nofile", "saved"}
                /\ tgTasks[k].st = "nofile" <=> ~tgFiles[tgTypes[k]].exists
                /\ \A i \in 1..Len(tgTasks[k].clubs) :
                     tgTasks[k].clubs[i].club.tags =
                        IF tgTasks[k].clubs[i].call = "answered" THEN <<"Tech">> ELSE <<>>

\* the record after differs from the record before in its tags only
OnlyTagsChanged(before, after) ==
    /\ DOMAIN after = DOMAIN before \cup {"tags"}
    /\ \A key \in DOMAIN before : key # "tags" => after[key] = before[key]

====
